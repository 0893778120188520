------------------------------ MODULE Profile ------------------------------
(***************************************************************************)
(* The resume saved in a user's profile: app/api/v1/profile.py stores its  *)
(* text and its file name in two columns of the user's row, and the cover  *)
(* letter route of app/api/v1/ai.py falls back to the text.  The row is    *)
(* loaded when the request is authenticated, before the upload is read and *)
(* parsed, and flushed column by column at the end.                        *)
(*                                                                         *)
(* Simplifications.  Requests are those of one user: none reaches another  *)
(* user's row.  A resume is its extracted text and its name.               *)
(***************************************************************************)
EXTENDS UnitOfWork

CONSTANTS
    Calls,      \* the user's requests
    Uploads,    \* readable resumes: their text and filename
    Null        \* SQL NULL

Columns == {"text", "filename"}
Empty == [c \in Columns |-> Null]

\* resume_text and resume_filename of the row.
Texts == {u["text"] : u \in Uploads}
Names == {u["filename"] : u \in Uploads}
Row == {x \in [Columns -> Texts \cup Names \cup {Null}] :
            x["text"] \in Texts \cup {Null} /\ x["filename"] \in Names \cup {Null}}

ASSUME UploadsAssumption ==
    /\ Uploads \subseteq [Columns -> Texts \cup Names]
    /\ Null \notin Texts \cup Names

VARIABLES
    row,        \* the user's row
    endpoint,   \* what each request calls
    upload,     \* the file it sent, Empty for none
    at,         \* its next step, or its outcome
    loaded,     \* current_user: the row as its session loaded it
    first       \* history: the row before the first request

resumeVars == <<row, endpoint, upload, at, loaded, first>>

Endpoints == {"none", "get", "save", "delete", "letter"}
Refused == {"400", "413", "500"}
Ended == {"ok", "422", "crashed"} \cup Refused

ResumeTypeOK ==
    /\ row \in Row /\ first \in Uploads \cup {Empty}
    /\ endpoint \in [Calls -> Endpoints]
    /\ upload \in [Calls -> Uploads \cup {Empty}]
    /\ at \in [Calls -> {"start", "parse", "flush", "refresh", "generate"} \cup Ended]
    /\ loaded \in [Calls -> Row]

ResumeInit ==
    /\ row \in Uploads \cup {Empty} /\ first = row
    /\ endpoint = [r \in Calls |-> "none"]
    /\ upload = [r \in Calls |-> Empty]
    /\ at = [r \in Calls |-> "start"]
    /\ loaded = [r \in Calls |-> Empty]

-----------------------------------------------------------------------------
MoveTo(r, label) == at' = [at EXCEPT ![r] = label]

\* What a request of each kind may send along.
Sends(o) == CASE o = "save" -> Uploads
              [] o = "letter" -> Uploads \cup {Empty}
              [] OTHER -> {Empty}

\* Where a request goes from the row it loaded.
FirstStep(o, u) == CASE o = "get" -> "ok"
                     [] o = "delete" -> "flush"
                     [] u # Empty -> "parse"
                     [] row["text"] # Null -> "generate"
                     [] OTHER -> "422"

\* get_current_user loads the row; get_profile answers from it, and so does a
\* cover letter without an upload.
Authenticate(r) ==
    /\ at[r] = "start"
    /\ \E o \in Endpoints \ {"none"} : \E u \in Sends(o) :
          /\ endpoint' = [endpoint EXCEPT ![r] = o]
          /\ upload' = [upload EXCEPT ![r] = u]
          /\ MoveTo(r, FirstStep(o, u))
    /\ loaded' = [loaded EXCEPT ![r] = row]
    /\ UNCHANGED <<row, first>>

\* extract_resume_text: refused, parsed, or a 500: of what pypdf may raise only
\* PdfReadError is caught.
Parse(r) ==
    /\ at[r] = "parse"
    /\ \/ \E code \in Refused : MoveTo(r, code)
       \/ MoveTo(r, IF endpoint[r] = "save" THEN "flush" ELSE "generate")
    /\ UNCHANGED <<row, endpoint, upload, loaded, first>>

AssignedTextOnly(r) == [c \in {"text"} |-> upload[r][c]]

\* What the handler assigns: both columns of the upload, or NULL to both.
Assigned(r) == upload[r]

\* The commit of save_resume and delete_resume.
Flush(r) ==
    /\ at[r] = "flush"
    /\ row' = Flushed(row, loaded[r], Assigned(r))
    /\ MoveTo(r, IF endpoint[r] = "save" THEN "refresh" ELSE "ok")
    /\ UNCHANGED <<endpoint, upload, loaded, first>>

\* save_resume answers with the name it reads back, and "has_resume": True.
Refresh(r) ==
    /\ at[r] = "refresh"
    /\ loaded' = [loaded EXCEPT ![r] = row]
    /\ MoveTo(r, "ok")
    /\ UNCHANGED <<row, endpoint, upload, first>>

\* generate_cover_letter, from the upload or the loaded row.
Generate(r) ==
    /\ at[r] = "generate"
    /\ MoveTo(r, "ok")
    /\ UNCHANGED <<row, endpoint, upload, loaded, first>>

\* The process dies, or a statement fails.
Fail(r) ==
    /\ at[r] \notin Ended
    /\ MoveTo(r, "crashed")
    /\ UNCHANGED <<row, endpoint, upload, loaded, first>>

ResumeNext == \E r \in Calls :
    Authenticate(r) \/ Parse(r) \/ Flush(r) \/ Refresh(r) \/ Generate(r) \/ Fail(r)

ResumeSpec == ResumeInit /\ [][ResumeNext]_resumeVars

-----------------------------------------------------------------------------
(* Properties                                                              *)

\* The resumes that were there or sent to be saved.
Sent == {first} \cup {upload[r] : r \in {q \in Calls : endpoint[q] = "save"}}

\* They share no text under two names, and no name for two texts.
Unrelated(S) == \A u, v \in S : u["text"] = v["text"] <=> u["filename"] = v["filename"]

(* The text and the name stored belong together: the only way to tear them *)
(* apart, however saves and deletions overlap, is to send two resumes that *)
(* agree in one of the two and differ in the other (profile.py:36-39).     *)
WholeUnlessShared == Unrelated(Sent) => row \in Sent \cup {Empty}

=============================================================================
