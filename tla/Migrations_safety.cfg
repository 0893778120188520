\* Two api containers and a worker that skips the migrations, images of either
\* revision, a rollout or rollback, a container that dies and a connection that is
\* lost.  No symmetry: EventuallyServing is a liveness property.
SPECIFICATION FairSpec
CONSTANTS
    Containers = {c1, c2, w}
    Skippers = {w}
    Images = {1, 2}
    Urls <- MCUrls
    None = None
    MaxCrashes = 1
    MaxFaults = 1
    MaxDeploys = 1
INVARIANTS
    SchemaAtVersion
    ServingMigrated
    FailuresExplained
PROPERTY EventuallyServing
