--------------------------- MODULE MigrationsProofs ---------------------------
(***************************************************************************)
(* Proofs about Migrations, for any containers, images and URLs, and any   *)
(* number of crashes and deployments.  The argument: a transaction that    *)
(* holds DDL started from the version that is still committed, because the *)
(* first DDL of any that read an older one fails; so versions only grow,   *)
(* and a container that got past alembic found or made one that its models *)
(* can live with.                                                          *)
(***************************************************************************)
EXTENDS Migrations, TLAPS

\* Only the holder has run DDL that is not committed.
HolderMigrates == \A c \in Containers : pc[c] = "migrate" <=> holder = c

\* What a container found out, by the point at which it is.
Upgrading ==
    \A c \in Containers :
        /\ read[c] # None => read[c] <= version
        /\ pc[c] \in {"boot", "heads"} => read[c] = None
        /\ pc[c] \in {"upgrade", "waiting", "migrate"} => read[c] # None /\ read[c] < image[c]
        /\ pc[c] = "migrate" =>
              read[c] = version /\ done[c] > read[c] /\ done[c] <= image[c]
        /\ pc[c] \in {"exec", "serving"} => c \in Skippers \/ image[c] <= version
        /\ pc[c] \in {"heads", "upgrade", "waiting", "migrate", "exec"} =>
              c \in Skippers \/ MakesEngine(FixDbScheme(url))

MigrationsInv ==
    TypeOK /\ SchemaAtVersion /\ HolderMigrates /\ Upgrading /\ FailuresExplained

\* The database never goes back, and no container forgets what it is.
VersionsGrow == version <= version'

\* A supported URL comes out of _fix_db_scheme fit for asyncpg, and without a %.
LEMMA UrlsFixed ==
    ASSUME NEW u \in Url, Supported(u)
    PROVE  Connects(FixDbScheme(u)) /\ ~ Interpolates(FixDbScheme(u))
<1> DEFINE kept == {q \in u.params : q.text # "blank" /\ q.key # "channel_binding"}
           fixed == {Rewritten(p) : p \in kept}
<1>1. /\ FixDbScheme(u).scheme = "postgresql+asyncpg"
      /\ FixDbScheme(u).params = fixed /\ FixDbScheme(u).encoded = u.encoded
  BY DEF FixDbScheme, FixedScheme, Url, Supported
<1>2. ASSUME NEW p \in kept
      PROVE  Rewritten(p).key \in {"ssl", "option"} /\ ~ Rewritten(p).escaped
  <2>1. /\ p \in Param /\ p.key \in {"sslmode", "ssl", "option"} /\ p.text = "word"
    BY <1>2 DEF Url, Param, Supported
  <2>2. Rewritten(p).key = FixedKey(p.key) /\ Rewritten(p).escaped = (p.text = "reserved")
    BY <2>1 DEF Param, Rewritten
  <2> QED  BY <2>1, <2>2 DEF FixedKey
<1>3. \A p \in fixed : p.key \in {"ssl", "option"} /\ ~ p.escaped
  BY <1>2
<1> HIDE DEF fixed
<1> QED  BY <1>1, <1>3 DEF Connects, MakesEngine, Supported, Interpolates

LEMMA ImagesAreNumbers ==
    /\ \A n \in Images : n \in Nat \ {0}
    /\ \A n \in Images \cup {0} : n \in Nat
    /\ UNION {0..n : n \in Images} \subseteq Nat
  BY ImagesAssumption

LEMMA InitMigrations == Init => MigrationsInv
<1> SUFFICES ASSUME Init PROVE MigrationsInv
  OBVIOUS
<1>1. schema \subseteq UNION {1..n : n \in Images}
  BY ImagesAreNumbers DEF Init
<1>2. TypeOK
  <2>1. \A c \in Containers : image[c] \in Images /\ done[c] = 0 /\ read[c] = None
    BY DEF Init
  <2>2. done \in [Containers -> UNION {0..n : n \in Images}]
    <3>1. ASSUME NEW c \in Containers PROVE 0 \in UNION {0..n : n \in Images}
      BY <2>1, ImagesAreNumbers
    <3> QED  BY <3>1 DEF Init
  <2> QED  BY <1>1, <2>2, BoundsAssumption DEF Init, TypeOK
<1> QED
  BY <1>2, ImagesAreNumbers, ContainersAssumption
  DEF Init, MigrationsInv, SchemaAtVersion, HolderMigrates, Upgrading, FailuresExplained

-----------------------------------------------------------------------------
(* The steps of one container                                              *)

\* What a step may not touch when it leaves the database alone: only container c
\* moves, and what it knows is right where it goes.
LEMMA QuietStep ==
    ASSUME MigrationsInv, NEW c \in Containers, NEW label, NEW head \in Images \cup {0, None},
           NEW last \in UNION {0..n : n \in Images},
           UNCHANGED <<version, schema, readers, url, image, crashes, deploys, holder>>,
           faults' \in 0..MaxFaults, pc' = [pc EXCEPT ![c] = label],
           read' = [read EXCEPT ![c] = head], done' = [done EXCEPT ![c] = last],
           pc[c] # "migrate", head # None => head <= version,
           label \in {"boot", "heads", "upgrade", "waiting", "exec", "serving", "failed", "lost"},
           label \in {"boot", "heads"} => head = None,
           label \in {"upgrade", "waiting"} => head # None /\ head < image[c],
           label \in {"exec", "serving"} => c \in Skippers \/ image[c] <= version,
           label \in {"heads", "upgrade", "waiting", "exec"} =>
               c \in Skippers \/ MakesEngine(FixDbScheme(url)),
           label = "failed" =>
               \/ head = None /\ ~ Supported(url)
               \/ head # None /\ (head > image[c] \/ version > head)
    PROVE  MigrationsInv'
<1>1. TypeOK'
  BY DEF MigrationsInv, TypeOK
<1>2. SchemaAtVersion' /\ HolderMigrates'
  BY DEF MigrationsInv, TypeOK, SchemaAtVersion, HolderMigrates
<1>3. \A d \in Containers :
         /\ pc'[d] = IF d = c THEN label ELSE pc[d]
         /\ read'[d] = IF d = c THEN head ELSE read[d]
         /\ d # c => done'[d] = done[d]
  BY DEF MigrationsInv, TypeOK
<1>4. Upgrading' /\ FailuresExplained'
  BY <1>3 DEF MigrationsInv, Upgrading, FailuresExplained
<1> QED  BY <1>1, <1>2, <1>4 DEF MigrationsInv

\* A container that goes, wherever it was, and what it had not committed with it.
LEMMA GoneStep ==
    ASSUME MigrationsInv, NEW c \in Containers, NEW label \in {"boot", "lost", "died"},
           UNCHANGED <<version, schema, url>>, readers' \subseteq readers,
           holder' = IF holder = c THEN None ELSE holder,
           pc' = [pc EXCEPT ![c] = label], Forget(c),
           image' \in [Containers -> Images],
           \A d \in Containers \ {c} : image'[d] = image[d],
           crashes' \in 0..MaxCrashes, faults' \in 0..MaxFaults, deploys' \in 0..MaxDeploys
    PROVE  MigrationsInv'
<1>1. 0 \in UNION {0..n : n \in Images}
  BY ImagesAreNumbers DEF MigrationsInv, TypeOK
<1>2. TypeOK' /\ SchemaAtVersion'
  BY <1>1 DEF MigrationsInv, TypeOK, SchemaAtVersion, Forget
<1>3. \A d \in Containers :
         /\ pc'[d] = IF d = c THEN label ELSE pc[d]
         /\ read'[d] = IF d = c THEN None ELSE read[d]
         /\ d # c => done'[d] = done[d]
  BY DEF MigrationsInv, TypeOK, Forget
<1>4. HolderMigrates'
  BY <1>3, ContainersAssumption DEF MigrationsInv, HolderMigrates
<1>5. Upgrading' /\ FailuresExplained'
  BY <1>3 DEF MigrationsInv, Upgrading, FailuresExplained
<1> QED  BY <1>2, <1>4, <1>5 DEF MigrationsInv

\* A commit, whether the container hears of it and goes on or is cut off by then.
LEMMA CommitStep ==
    ASSUME MigrationsInv, NEW c \in Containers, NEW label \in {"exec", "lost"},
           pc[c] = "migrate", done[c] = image[c], version' = image[c], holder' = None,
           schema' = schema \cup (read[c] + 1)..image[c], pc' = [pc EXCEPT ![c] = label],
           UNCHANGED <<readers, url, image, crashes, deploys>>, faults' \in 0..MaxFaults,
           Forget(c) \/ UNCHANGED <<read, done>>
    PROVE  MigrationsInv' /\ VersionsGrow
<1> USE ImagesAreNumbers
<1>1. /\ read[c] = version /\ version < image[c] /\ holder = c
      /\ version \in Nat /\ image[c] \in Images /\ image[c] \in Nat /\ schema = 1..version
      /\ c \in Skippers \/ MakesEngine(FixDbScheme(url))
  BY DEF MigrationsInv, TypeOK, SchemaAtVersion, Upgrading, HolderMigrates
<1>2. schema' = 1..image[c]
  BY <1>1
<1>3. 0 \in UNION {0..n : n \in Images}
  BY <1>1
<1>4. TypeOK' /\ SchemaAtVersion'
  <2>1. /\ read' \in [Containers -> Images \cup {0, None}]
        /\ done' \in [Containers -> UNION {0..n : n \in Images}]
    BY <1>3 DEF MigrationsInv, TypeOK, Forget
  <2>2. schema' \subseteq UNION {1..n : n \in Images}
    BY <1>1, <1>2
  <2> QED  BY <1>1, <1>2, <2>1, <2>2 DEF MigrationsInv, TypeOK, SchemaAtVersion
<1>5. \A d \in Containers :
         /\ pc'[d] = IF d = c THEN label ELSE pc[d]
         /\ read'[d] = read[d] \/ (d = c /\ read'[d] = None)
         /\ d # c => done'[d] = done[d]
  BY DEF MigrationsInv, TypeOK, Forget
<1>6. HolderMigrates'
  BY <1>1, <1>5, ContainersAssumption DEF MigrationsInv, HolderMigrates
<1>7. \A d \in Containers :
         /\ pc'[d] # "migrate" /\ image[d] \in Nat
         /\ read[d] # None => read[d] \in Nat /\ read[d] <= version
  <2>1. ASSUME NEW d \in Containers
        PROVE  pc'[d] # "migrate"
    BY <1>1, <1>5 DEF MigrationsInv, HolderMigrates
  <2>2. ASSUME NEW d \in Containers
        PROVE  image[d] \in Nat /\ (read[d] # None => read[d] \in Nat)
    BY DEF MigrationsInv, TypeOK
  <2>3. ASSUME NEW d \in Containers, read[d] # None
        PROVE  read[d] <= version
    BY <2>3 DEF MigrationsInv, Upgrading
  <2> QED  BY <2>1, <2>2, <2>3
<1>8. Upgrading'
  BY <1>1, <1>5, <1>7 DEF MigrationsInv, Upgrading
<1>9. FailuresExplained'
  BY <1>1, <1>5, <1>7 DEF MigrationsInv, FailuresExplained
<1> QED  BY <1>1, <1>4, <1>6, <1>8, <1>9 DEF MigrationsInv, VersionsGrow

LEMMA StepMigrations == MigrationsInv /\ [Next]_vars => MigrationsInv' /\ VersionsGrow
<1> SUFFICES ASSUME MigrationsInv, [Next]_vars PROVE MigrationsInv' /\ VersionsGrow
  OBVIOUS
<1> USE ImagesAreNumbers
<1>0. /\ version \in Nat /\ version <= version /\ schema = 1..version
      /\ faults \in 0..MaxFaults /\ url \in Url
      /\ \A c \in Containers :
            /\ image[c] \in Images /\ read[c] \in Images \cup {0, None}
            /\ read[c] # None => read[c] \in Nat /\ read[c] <= version
            /\ image[c] \in Nat /\ done[c] \in Nat /\ done[c] \in UNION {0..b : b \in Images}
            /\ read = [read EXCEPT ![c] = read[c]] /\ done = [done EXCEPT ![c] = done[c]]
            /\ 0 \in UNION {0..b : b \in Images}
  BY UrlsAssumption DEF MigrationsInv, TypeOK, SchemaAtVersion, Upgrading
<1>1. ASSUME NEW c \in Containers, Boot(c) PROVE MigrationsInv' /\ VersionsGrow
  <2>1. PICK label \in {"exec", "failed", "heads"} :
           /\ pc' = [pc EXCEPT ![c] = label]
           /\ label = "exec" => c \in Skippers
           /\ label = "failed" => ~ Supported(url)
           /\ label = "heads" => MakesEngine(FixDbScheme(url))
    <3> DEFINE bad == Interpolates(FixDbScheme(url)) \/ ~ Connects(FixDbScheme(url))
    <3>1. pc' = [pc EXCEPT ![c] = IF c \in Skippers THEN "exec"
                                  ELSE IF bad THEN "failed" ELSE "heads"]
      BY <1>1 DEF Boot, Goto, Failure
    <3>2. (bad => ~ Supported(url)) /\ (~ bad => MakesEngine(FixDbScheme(url)))
      BY <1>0, UrlsFixed DEF Connects
    <3> HIDE DEF bad
    <3> QED  BY <3>1, <3>2
  <2>2. /\ pc[c] = "boot" /\ read[c] = None
        /\ UNCHANGED <<version, schema, holder, readers, url, image, read, done, crashes, faults,
                       deploys>>
    BY <1>1 DEF Boot, MigrationsInv, Upgrading
  <2>3. /\ read' = [read EXCEPT ![c] = None] /\ done' = [done EXCEPT ![c] = done[c]]
        /\ done[c] \in UNION {0..b : b \in Images}
        /\ faults' \in 0..MaxFaults
    BY <1>0, <2>2
  <2>4. /\ None \in Images \cup {0, None} /\ pc[c] # "migrate"
        /\ label \in {"boot", "heads", "upgrade", "waiting", "exec", "serving", "failed", "lost"}
        /\ ~ label \in {"upgrade", "waiting"}
        /\ label \in {"exec", "serving"} => c \in Skippers
        /\ label \in {"heads", "upgrade", "waiting", "exec"} =>
               c \in Skippers \/ MakesEngine(FixDbScheme(url))
    BY <2>1, <2>2
  <2>5. MigrationsInv'
    BY <2>1, <2>2, <2>3, <2>4, QuietStep
  <2> QED  BY <1>0, <2>2, <2>5 DEF VersionsGrow
<1>2. ASSUME NEW c \in Containers, ReadHeads(c) PROVE MigrationsInv' /\ VersionsGrow
  <2>1. PICK label \in {"exec", "failed", "upgrade"} :
           /\ pc' = [pc EXCEPT ![c] = label]
           /\ label = "exec" => image[c] <= version
           /\ label = "failed" => version > image[c]
           /\ label = "upgrade" => version < image[c]
    <3>1. pc' = [pc EXCEPT ![c] = IF version > image[c] THEN "failed"
                                  ELSE IF version = image[c] THEN "exec" ELSE "upgrade"]
      BY <1>2 DEF ReadHeads, Goto, Failure
    <3>2. CASE version > image[c]
      BY <3>1, <3>2
    <3>3. CASE version = image[c]
      BY <1>0, <3>1, <3>3
    <3>4. CASE version < image[c]
      BY <1>0, <3>1, <3>4
    <3> QED  BY <1>0, <3>2, <3>3, <3>4
  <2>2. /\ pc[c] = "heads" /\ read' = [read EXCEPT ![c] = version]
        /\ version \in Images \cup {0, None} /\ version # None
        /\ c \in Skippers \/ MakesEngine(FixDbScheme(url))
        /\ UNCHANGED <<version, schema, holder, readers, url, image, done, crashes, faults, deploys>>
    BY <1>0, <1>2, ContainersAssumption DEF ReadHeads, MigrationsInv, TypeOK, Upgrading
  <2> QED  BY <1>0, <2>1, <2>2, QuietStep DEF VersionsGrow
<1>3. ASSUME NEW c \in Containers, Upgrade(c) PROVE MigrationsInv' /\ VersionsGrow
  <2>1. /\ pc[c] = "upgrade" /\ pc' = [pc EXCEPT ![c] = "waiting"]
        /\ read[c] # None /\ read[c] < image[c]
        /\ c \in Skippers \/ MakesEngine(FixDbScheme(url))
        /\ UNCHANGED <<version, schema, holder, readers, url, image, read, done, crashes, faults,
                       deploys>>
    BY <1>3 DEF Upgrade, Goto, MigrationsInv, Upgrading
  <2> QED  BY <1>0, <2>1, QuietStep DEF VersionsGrow
<1>4. ASSUME NEW c \in Containers, FirstRevision(c) PROVE MigrationsInv' /\ VersionsGrow
  <2>1. /\ pc[c] = "waiting" /\ holder = None /\ read[c] # None /\ read[c] < image[c]
        /\ c \in Skippers \/ MakesEngine(FixDbScheme(url))
        /\ UNCHANGED <<version, schema, readers, url, image, read, crashes, faults, deploys>>
    BY <1>4 DEF FirstRevision, MigrationsInv, Upgrading
  <2>2. CASE /\ read[c] + 1 \in schema /\ pc' = [pc EXCEPT ![c] = "failed"]
             /\ UNCHANGED <<holder, done>>
    <3>1. version > read[c]
      BY <1>0, <2>1, <2>2
    <3> QED  BY <1>0, <2>1, <2>2, <3>1, QuietStep DEF VersionsGrow
  <2>3. CASE /\ read[c] + 1 \notin schema /\ holder' = c
             /\ done' = [done EXCEPT ![c] = read[c] + 1] /\ pc' = [pc EXCEPT ![c] = "migrate"]
    <3>1. read[c] = version
      BY <1>0, <2>1, <2>3
    <3>2. /\ read[c] + 1 \in UNION {0..n : n \in Images}
          /\ read[c] + 1 > read[c] /\ read[c] + 1 <= image[c]
      BY <1>0, <2>1
    <3>3. TypeOK' /\ SchemaAtVersion'
      BY <2>1, <2>3, <3>2 DEF MigrationsInv, TypeOK, SchemaAtVersion
    <3>4. \A d \in Containers :
             /\ pc'[d] = IF d = c THEN "migrate" ELSE pc[d]
             /\ done'[d] = IF d = c THEN read[c] + 1 ELSE done[d]
      BY <2>3 DEF MigrationsInv, TypeOK
    <3>5. HolderMigrates'
      BY <2>1, <2>3, <3>4, ContainersAssumption DEF MigrationsInv, HolderMigrates
    <3>6. Upgrading' /\ FailuresExplained'
      BY <2>1, <3>1, <3>2, <3>4 DEF MigrationsInv, Upgrading, FailuresExplained
    <3> QED  BY <1>0, <2>1, <3>3, <3>5, <3>6 DEF MigrationsInv, VersionsGrow
  <2> QED  BY <1>4, <2>2, <2>3 DEF FirstRevision, Goto, Failure
<1>5. ASSUME NEW c \in Containers, NextRevision(c) PROVE MigrationsInv' /\ VersionsGrow
  <2>1. /\ pc[c] = "migrate" /\ done[c] < image[c] /\ done' = [done EXCEPT ![c] = done[c] + 1]
        /\ UNCHANGED <<version, schema, holder, readers, url, image, pc, read, crashes, faults, deploys>>
    BY <1>5 DEF NextRevision, MigrationsInv, TypeOK
  <2>2. done[c] + 1 \in UNION {0..n : n \in Images} /\ done[c] + 1 <= image[c]
    BY <1>0, <2>1
  <2>3. TypeOK' /\ SchemaAtVersion' /\ HolderMigrates'
    BY <2>1, <2>2 DEF MigrationsInv, TypeOK, SchemaAtVersion, HolderMigrates
  <2>4. \A d \in Containers : done'[d] = IF d = c THEN done[c] + 1 ELSE done[d]
    BY <2>1 DEF MigrationsInv, TypeOK
  <2>5. Upgrading' /\ FailuresExplained'
    BY <1>0, <2>1, <2>2, <2>4 DEF MigrationsInv, Upgrading, FailuresExplained
  <2> QED  BY <1>0, <2>1, <2>3, <2>5 DEF MigrationsInv, VersionsGrow
<1>6. ASSUME NEW c \in Containers, Commit(c) PROVE MigrationsInv' /\ VersionsGrow
  BY <1>0, <1>6, CommitStep DEF Commit, Goto
<1>7. ASSUME NEW c \in Containers, Exec(c) PROVE MigrationsInv' /\ VersionsGrow
  <2>1. PICK label \in {"serving", "failed"} :
           /\ pc' = [pc EXCEPT ![c] = label]
           /\ label = "failed" => ~ MakesEngine(FixDbScheme(url))
    BY <1>7 DEF Exec, Goto, Failure
  <2>2. /\ pc[c] = "exec" /\ read' = [read EXCEPT ![c] = None] /\ done' = [done EXCEPT ![c] = 0]
        /\ c \in Skippers \/ image[c] <= version
        /\ UNCHANGED <<version, schema, holder, readers, url, image, crashes, faults, deploys>>
    BY <1>7 DEF Exec, Forget, MigrationsInv, Upgrading
  <2>3. Supported(url) => MakesEngine(FixDbScheme(url))
    BY <1>0, UrlsFixed DEF Connects
  <2> QED  BY <1>0, <2>1, <2>2, <2>3, QuietStep DEF VersionsGrow
<1>8. ASSUME NEW c \in Containers, StartRequest(c) \/ EndRequest(c)
      PROVE  MigrationsInv' /\ VersionsGrow
  <2>1. /\ readers' \subseteq readers \cup {c}
        /\ UNCHANGED <<version, schema, holder, url, image, pc, read, done, crashes, faults,
                       deploys>>
    BY <1>8 DEF StartRequest, EndRequest
  <2>2. TypeOK' /\ SchemaAtVersion' /\ HolderMigrates'
    BY <2>1 DEF MigrationsInv, TypeOK, SchemaAtVersion, HolderMigrates
  <2>3. Upgrading' /\ FailuresExplained'
    BY <2>1 DEF MigrationsInv, Upgrading, FailuresExplained
  <2> QED  BY <1>0, <2>1, <2>2, <2>3 DEF MigrationsInv, VersionsGrow
<1>9. ASSUME NEW c \in Containers, Crash(c) \/ Deploy(c) \/ Restart(c)
      PROVE  MigrationsInv' /\ VersionsGrow
  <2>1. PICK label \in {"died", "boot"} : pc' = [pc EXCEPT ![c] = label]
    BY <1>9 DEF Crash, Deploy, Restart, Goto
  <2>2. /\ holder' = IF holder = c THEN None ELSE holder
        /\ Forget(c) /\ readers' \subseteq readers /\ UNCHANGED <<version, schema, url>>
    <3>1. CASE Restart(c)
      <4>1. pc[c] # "migrate" /\ UNCHANGED <<version, schema, url, readers, holder>> /\ Forget(c)
        BY <3>1 DEF Restart
      <4> QED  BY <4>1 DEF MigrationsInv, HolderMigrates
    <3>2. CASE Crash(c) \/ Deploy(c)
      BY <3>2 DEF Crash, Deploy, Rollback
    <3> QED  BY <1>9, <3>1, <3>2
  <2>3. /\ image' \in [Containers -> Images]
        /\ \A d \in Containers \ {c} : image'[d] = image[d]
        /\ crashes' \in 0..MaxCrashes /\ faults' \in 0..MaxFaults /\ deploys' \in 0..MaxDeploys
    BY <1>9, BoundsAssumption DEF Crash, Deploy, Restart, MigrationsInv, TypeOK
  <2> QED  BY <1>0, <2>1, <2>2, <2>3, GoneStep DEF VersionsGrow
<1>10. ASSUME NEW c \in Containers, LoseConnection(c) PROVE MigrationsInv' /\ VersionsGrow
  <2>1. /\ pc' = [pc EXCEPT ![c] = "lost"] /\ holder' = IF holder = c THEN None ELSE holder
        /\ Forget(c) /\ faults' \in 0..MaxFaults
        /\ UNCHANGED <<readers, url, image, crashes, deploys>>
    BY <1>10, BoundsAssumption DEF LoseConnection, Goto, MigrationsInv, TypeOK
  <2>2. CASE UNCHANGED <<version, schema>>
    BY <1>0, <2>1, <2>2, GoneStep DEF VersionsGrow, MigrationsInv, TypeOK
  <2>3. CASE /\ pc[c] = "migrate" /\ done[c] = image[c] /\ version' = image[c]
             /\ schema' = schema \cup (read[c] + 1)..image[c]
    <3>1. holder' = None
      BY <2>1, <2>3 DEF MigrationsInv, HolderMigrates
    <3> QED  BY <2>1, <2>3, <3>1, CommitStep
  <2> QED  BY <1>10, <2>2, <2>3 DEF LoseConnection
<1>11. ASSUME UNCHANGED vars PROVE MigrationsInv' /\ VersionsGrow
  <2>1. TypeOK' /\ SchemaAtVersion' /\ HolderMigrates'
    BY <1>11 DEF vars, MigrationsInv, TypeOK, SchemaAtVersion, HolderMigrates
  <2>2. Upgrading' /\ FailuresExplained'
    BY <1>11 DEF vars, MigrationsInv, Upgrading, FailuresExplained
  <2> QED  BY <1>0, <1>11, <2>1, <2>2 DEF vars, MigrationsInv, VersionsGrow
<1> QED
  BY <1>1, <1>2, <1>3, <1>4, <1>5, <1>6, <1>7, <1>8, <1>9, <1>10, <1>11 DEF Next

-----------------------------------------------------------------------------
(* The theorems                                                            *)

\* The containers' state keeps its types.
THEOREM TypeCorrect == Spec => []TypeOK
<1>1. MigrationsInv => TypeOK
  BY DEF MigrationsInv
<1> QED  BY InitMigrations, StepMigrations, <1>1, PTL DEF Spec

\* What is committed is the schema of the committed version, though nothing locks.
THEOREM SchemaIsAtVersion == Spec => []SchemaAtVersion
<1>1. MigrationsInv => SchemaAtVersion
  BY DEF MigrationsInv
<1> QED  BY InitMigrations, StepMigrations, <1>1, PTL DEF Spec

\* An app that did not skip the migrations serves on a schema its models can use.
THEOREM AppsServeMigrated == Spec => []ServingMigrated
<1>1. MigrationsInv => ServingMigrated
  <2> SUFFICES ASSUME MigrationsInv, NEW c \in Containers \ Skippers, pc[c] = "serving"
               PROVE  1..image[c] \subseteq schema
    BY DEF ServingMigrated
  <2>1. image[c] <= version /\ schema = 1..version /\ image[c] \in Nat /\ version \in Nat
    BY ImagesAreNumbers DEF MigrationsInv, TypeOK, SchemaAtVersion, Upgrading
  <2> QED  BY <2>1
<1> QED  BY InitMigrations, StepMigrations, <1>1, PTL DEF Spec

\* A container that is not cut off fails before it reads the version only for a URL
\* that is not supported, and after that only because its image is older than what
\* it read or another container has migrated since.
THEOREM FailuresHaveACause == Spec => []FailuresExplained
<1>1. MigrationsInv => FailuresExplained
  BY DEF MigrationsInv
<1> QED  BY InitMigrations, StepMigrations, <1>1, PTL DEF Spec

=============================================================================
