---------------------------- MODULE AccountLink ----------------------------
(***************************************************************************)
(* What upsertSigmaAccount (src/server/account-record.ts) promises to the  *)
(* two callback entry points, without its reads, retries and adapters:     *)
(* a call asks for the identity ("sigma", subject) to belong to a user; it *)
(* may return success only if, at some instant between its invocation and  *)
(* its return, the identity did come to belong to that user by its own     *)
(* write.  A call that fails may or may not have written.  Unlinking an    *)
(* account may remove the link at any instant.                             *)
(***************************************************************************)

CONSTANTS
    Call,       \* the upsert calls (one per sign-in callback in flight)
    Subject,    \* Sigma subject ids, the `sub` of the token exchange
    User,       \* ids of Better Auth users
    NoUser      \* the owner of a subject that is not linked; not a user

VARIABLES
    owner,      \* owner[s] : the user the identity of s belongs to
    status,     \* status[c] : how far the call is
    want        \* want[c] : the link the call asks for

linkVars == <<owner, status, want>>

Link == [subject : Subject, user : User]

LinkTypeOK ==
    /\ owner \in [Subject -> User \cup {NoUser}]
    /\ status \in [Call -> {"idle", "trying", "wrote", "ok", "failed"}]
    /\ want \in [Call -> Link]

LinkInit ==
    /\ owner \in [Subject -> User \cup {NoUser}]
    /\ status = [c \in Call |-> "idle"]
    /\ want \in [Call -> Link]

\* The callback asks for the link.
Invoke(c) ==
    /\ status[c] = "idle"
    /\ status' = [status EXCEPT ![c] = "trying"]
    /\ \E link \in Link : want' = [want EXCEPT ![c] = link]
    /\ UNCHANGED owner

\* The write takes effect.  The caller may learn of it in the same step, learn of
\* it later, or be told of an error although the write is there (a lost reply).
\* The write may have to be done again, so a call may take this step twice.
Write(c) ==
    /\ status[c] \in {"trying", "wrote"}
    /\ owner' = [owner EXCEPT ![want[c].subject] = want[c].user]
    /\ \E answer \in {"wrote", "ok", "failed"} :
          status' = [status EXCEPT ![c] = answer]
    /\ UNCHANGED want

\* Success is reported: only a call that has written may do so.
Return(c) ==
    /\ status[c] = "wrote"
    /\ status' = [status EXCEPT ![c] = "ok"]
    /\ UNCHANGED <<owner, want>>

Fail(c) ==
    /\ status[c] \in {"trying", "wrote"}
    /\ status' = [status EXCEPT ![c] = "failed"]
    /\ UNCHANGED <<owner, want>>

\* The user unlinks the account, or is deleted.
Unlinked(s) ==
    /\ owner' = [owner EXCEPT ![s] = NoUser]
    /\ UNCHANGED <<status, want>>

LinkNext ==
    \/ \E c \in Call : Invoke(c) \/ Write(c) \/ Return(c) \/ Fail(c)
    \/ \E s \in Subject : Unlinked(s)

LinkSpec == LinkInit /\ [][LinkNext]_linkVars
=============================================================================
