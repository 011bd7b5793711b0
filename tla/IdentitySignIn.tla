--------------------------- MODULE IdentitySignIn ---------------------------
(***************************************************************************)
(* What both sign-ins promise: a request that has proved a credential (at  *)
(* the consumer, an email the redeemed code resolved to; at the provider,  *)
(* the key of its signature) is signed in as a user it belongs to, who is  *)
(* found or created as if in one step.  A user is created only for a       *)
(* proved credential that has none, is a new one, and keeps it alone; so   *)
(* that a credential belongs to several users only if it always did.       *)
(***************************************************************************)

CONSTANTS
    Call,           \* sign-in requests
    Credential,     \* what a request proves
    User,           \* user ids
    NoUser,         \* no user
    NoCredential    \* what a request has proved before it has proved any

VARIABLES
    owners,     \* owners[i] : the users the credential i belongs to
    proved,     \* proved[c] : the credential the request c has proved
    signedIn    \* signedIn[c] : the user c has a session of

identityVars == <<owners, proved, signedIn>>

IdentityInit ==
    /\ owners \in [Credential -> SUBSET User]
    /\ proved \in [Call -> Credential \cup {NoCredential}]
    /\ signedIn = [c \in Call |-> NoUser]

Prove(c) ==
    /\ proved[c] = NoCredential
    /\ \E i \in Credential : proved' = [proved EXCEPT ![c] = i]
    /\ UNCHANGED <<owners, signedIn>>

\* A user is created for what c has proved.  The request may fail afterwards.
Register(c) ==
    /\ proved[c] # NoCredential
    /\ owners[proved[c]] = {}
    /\ \E u \in User :
          /\ \A i \in Credential : u \notin owners[i]
          /\ owners' = [owners EXCEPT ![proved[c]] = {u}]
    /\ UNCHANGED <<proved, signedIn>>

SignIn(c) ==
    /\ proved[c] # NoCredential
    /\ signedIn[c] = NoUser
    /\ \E u \in owners[proved[c]] : signedIn' = [signedIn EXCEPT ![c] = u]
    /\ UNCHANGED <<owners, proved>>

IdentityNext == \E c \in Call : Prove(c) \/ Register(c) \/ SignIn(c)

IdentitySpec == IdentityInit /\ [][IdentityNext]_identityVars
=============================================================================
