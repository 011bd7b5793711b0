------------------------ MODULE IframeSignerProofs -------------------------
(***************************************************************************)
(* Proofs about IframeSigner, for any calls, kinds of requests and         *)
(* identities: types and bookkeeping (IframeTypeCorrect), that an answer   *)
(* is of the identity its request was posted with (AnswersAreAsPosted),    *)
(* and that nobody waits without an iframe (NobodyLeftBehind).             *)
(***************************************************************************)
EXTENDS IframeSigner, TLAPS

\* A request in the inbox has been posted by a call that waits or has given up; the
\* message in front of it, or what the page has been told, is the identity it is for.
InboxInv ==
    \A i \in 1 .. Len(inbox) :
        inbox[i].type = "REQUEST" =>
            /\ pc[inbox[i].id] \in {"answer", "settled"}
            /\ i = 1 => told = asked[inbox[i].id]
            /\ i > 1 => /\ inbox[i - 1].type = "SET_IDENTITY"
                        /\ inbox[i - 1].bapId = asked[inbox[i].id]

\* The same of a reply that is under way.
ReplyInv ==
    \A r \in replies :
        /\ pc[r.id] \in {"answer", "settled"}
        /\ r.by \in Bap => r.by = asked[r.id]

\* Only a call that has settled has an answer.
AnswerInv == \A c \in Call : pc[c] # "settled" => answer[c] = NoBap

\* The inductive invariant.
IframeInv ==
    /\ IframeTypeOK
    /\ InboxInv
    /\ ReplyInv
    /\ AnswerInv
    /\ AnsweredAsPosted
    /\ NoneWaitsWithoutIframe

----------------------------------------------------------------------------

\* Every request that awaits an answer is in one of the maps: rejectAllPending misses
\* none.
LEMMA AllPending ==
    ASSUME IframeTypeOK
    PROVE  UNION {pending[k] : k \in Kind} = {c \in Call : pc[c] = "answer"}
  BY DEF IframeTypeOK

\* What the page may hear of a message is a SET_IDENTITY or a REQUEST.
LEMMA MessageType ==
    ASSUME NEW m \in Message
    PROVE  \/ m.type = "SET_IDENTITY" /\ m.bapId \in Bap
           \/ m.type = "REQUEST" /\ m.id \in Call
  BY DEF Message

LEMMA InitIframe == IframeInit => IframeInv
  <1> SUFFICES ASSUME IframeInit PROVE IframeInv
    OBVIOUS
  <1> USE DEF IframeInit
  <1>1. IframeTypeOK
    <2>1. inbox \in Seq(Message) /\ loading \subseteq 1 .. appended /\ loaded \subseteq 1 .. appended
      OBVIOUS
    <2>2. [iframe |-> 0, state |-> "open"] \in Load
      BY DEF Load
    <2>3. load \in [Call -> Load]
      BY <2>2
    <2>4. \A k \in Kind : pending[k] = {c \in Call : pc[c] = "answer" /\ kind[c] = k}
      OBVIOUS
    <2>5. replies \subseteq Reply /\ iframe \in 0 .. appended
      OBVIOUS
    <2> QED
      BY <2>1, <2>3, <2>4, <2>5 DEF IframeTypeOK
  <1>2. InboxInv /\ ReplyInv /\ AnswerInv
    BY DEF InboxInv, ReplyInv, AnswerInv
  <1>3. AnsweredAsPosted /\ NoneWaitsWithoutIframe
    BY IframeAssumption DEF AnsweredAsPosted, NoneWaitsWithoutIframe
  <1> QED
    BY <1>1, <1>2, <1>3 DEF IframeInv

----------------------------------------------------------------------------
(* One lemma per kind of step                                              *)

\* Settling some calls with an error that are waiting, and taking them out of the
\* maps: the timers, SIGNER_ERROR and destroy().
LEMMA FailStep ==
    ASSUME IframeInv, NEW C \in SUBSET Call,
           \A c \in C : pc[c] # "settled",
           Settled(C, "error"),
           pending' = [k \in Kind |-> pending[k] \ C],
           UNCHANGED <<kind, asked>>
    PROVE  /\ pc' \in [Call -> {"idle", "load", "answer", "settled"}]
           /\ answer' \in [Call -> Bap \cup {NoBap, "error"}]
           /\ pending' \in [Kind -> SUBSET Call]
           /\ \A k \in Kind : pending'[k] = {c \in Call : pc'[c] = "answer" /\ kind'[c] = k}
           /\ AnswerInv' /\ AnsweredAsPosted'
           /\ \A c \in Call : pc[c] \in {"answer", "settled"} => pc'[c] \in {"answer", "settled"}
           /\ \A c \in Call : pc'[c] = "answer" => pc[c] = "answer"
  <1> USE DEF IframeInv, Settled
  <1>1. pc' \in [Call -> {"idle", "load", "answer", "settled"}]
    BY DEF IframeTypeOK
  <1>2. answer' \in [Call -> Bap \cup {NoBap, "error"}]
    BY DEF IframeTypeOK
  <1>3. pending' \in [Kind -> SUBSET Call]
    BY DEF IframeTypeOK
  <1>4. ASSUME NEW k \in Kind
        PROVE  pending'[k] = {c \in Call : pc'[c] = "answer" /\ kind'[c] = k}
    BY <1>4 DEF IframeTypeOK
  <1>5. AnswerInv' /\ AnsweredAsPosted'
    BY IframeAssumption DEF IframeTypeOK, AnswerInv, AnsweredAsPosted
  <1>6. \A c \in Call : pc[c] \in {"answer", "settled"} => pc'[c] \in {"answer", "settled"}
    BY DEF IframeTypeOK
  <1>7. \A c \in Call : pc'[c] = "answer" => pc[c] = "answer"
    BY DEF IframeTypeOK
  <1> QED
    BY <1>1, <1>2, <1>3, <1>4, <1>5, <1>6, <1>7

\* What the page has heard and answered stays right when calls only move on.
LEMMA PageKept ==
    ASSUME IframeInv,
           UNCHANGED <<inbox, told, replies, asked>>,
           \A c \in Call : pc[c] \in {"answer", "settled"} => pc'[c] \in {"answer", "settled"}
    PROVE  InboxInv' /\ ReplyInv'
  <1>1. inbox \in Seq(Message) /\ replies \subseteq Reply
    BY DEF IframeInv, IframeTypeOK
  <1>2. \A i \in 1 .. Len(inbox) : inbox[i] \in Message
    BY <1>1
  <1>3. InboxInv'
    BY <1>2, MessageType DEF IframeInv, InboxInv
  <1>4. ReplyInv'
    BY <1>1 DEF IframeInv, ReplyInv, Reply
  <1> QED
    BY <1>3, <1>4

LEMMA SetIdentityStep ==
    ASSUME IframeInv, NEW b \in Bap, SetIdentity(b)
    PROVE  IframeInv'
  <1> DEFINE m == [type |-> "SET_IDENTITY", bapId |-> b]
  <1> USE DEF IframeInv, SetIdentity, callVars
  <1>1. m \in Message
    BY DEF Message
  <1>2. inbox \in Seq(Message)
    BY DEF IframeTypeOK
  <1>3. inbox' = inbox \/ inbox' = Append(inbox, m)
    BY <1>2 DEF Posted
  <1>4. inbox' \in Seq(Message)
    BY <1>1, <1>2, <1>3
  <1>5. IframeTypeOK'
    BY <1>4 DEF IframeTypeOK
  <1>6. InboxInv'
    <2>1. CASE inbox' = inbox
      BY <2>1 DEF InboxInv
    <2>2. CASE inbox' = Append(inbox, m)
      <3>1. Len(inbox') = Len(inbox) + 1 /\ inbox'[Len(inbox) + 1] = m
        BY <1>2, <2>2
      <3>2. \A i \in 1 .. Len(inbox) : inbox'[i] = inbox[i]
        BY <1>2, <2>2
      <3>3. ASSUME NEW i \in 1 .. Len(inbox'), inbox'[i].type = "REQUEST"
            PROVE  i \in 1 .. Len(inbox)
        BY <1>2, <3>1, <3>3
      <3>4. \A i \in 1 .. Len(inbox) : i > 1 => i - 1 \in 1 .. Len(inbox)
        BY <1>2
      <3> QED
        BY <3>2, <3>3, <3>4 DEF InboxInv
    <2> QED
      BY <1>3, <2>1, <2>2
  <1>7. ReplyInv' /\ AnswerInv' /\ AnsweredAsPosted' /\ NoneWaitsWithoutIframe'
    BY DEF ReplyInv, AnswerInv, AnsweredAsPosted, NoneWaitsWithoutIframe
  <1> QED
    BY <1>5, <1>6, <1>7

LEMMA OpenStep ==
    ASSUME IframeInv, NEW c \in Call, Open(c)
    PROVE  IframeInv'
  <1> USE DEF IframeInv, Open
  <1>1. IframeTypeOK'
    BY DEF IframeTypeOK, Load
  <1>2. InboxInv'
    BY DEF InboxInv
  <1>3. ReplyInv'
    BY DEF ReplyInv, IframeTypeOK, Reply
  <1>4. AnswerInv' /\ AnsweredAsPosted'
    BY DEF AnswerInv, AnsweredAsPosted, IframeTypeOK
  <1>5. NoneWaitsWithoutIframe'
    BY DEF NoneWaitsWithoutIframe, IframeTypeOK
  <1> QED
    BY <1>1, <1>2, <1>3, <1>4, <1>5

LEMMA LoadedStep ==
    ASSUME IframeInv, NEW n \in loading, Loaded(n)
    PROVE  IframeInv'
  <1> USE DEF IframeInv, Loaded
  <1>1. load' \in [Call -> Load]
    BY DEF IframeTypeOK, Load
  <1>2. IframeTypeOK'
    BY <1>1 DEF IframeTypeOK
  <1>3. InboxInv' /\ ReplyInv'
    BY PageKept
  <1>4. AnswerInv' /\ AnsweredAsPosted' /\ NoneWaitsWithoutIframe'
    BY DEF AnswerInv, AnsweredAsPosted, NoneWaitsWithoutIframe
  <1> QED
    BY <1>2, <1>3, <1>4

LEMMA LoadFailsStep ==
    ASSUME IframeInv, NEW c \in Call, LoadFails(c)
    PROVE  IframeInv'
  <1> USE DEF IframeInv, LoadFails, fieldVars, pageVars
  <1>1. pending' = [k \in Kind |-> pending[k] \ {c}]
    BY DEF IframeTypeOK
  <1>2. /\ pc' \in [Call -> {"idle", "load", "answer", "settled"}]
        /\ answer' \in [Call -> Bap \cup {NoBap, "error"}]
        /\ pending' \in [Kind -> SUBSET Call]
        /\ \A k \in Kind : pending'[k] = {d \in Call : pc'[d] = "answer" /\ kind'[d] = k}
        /\ AnswerInv' /\ AnsweredAsPosted'
        /\ \A d \in Call : pc[d] \in {"answer", "settled"} => pc'[d] \in {"answer", "settled"}
        /\ \A d \in Call : pc'[d] = "answer" => pc[d] = "answer"
    BY <1>1, FailStep
  <1>3. load' \in [Call -> Load]
    <2>1. load \in [Call -> Load]
      BY DEF IframeTypeOK
    <2>2. [load[c] EXCEPT !.state = "rejected"] \in Load
      BY <2>1 DEF Load
    <2> QED
      BY <2>1, <2>2
  <1>4. IframeTypeOK'
    BY <1>2, <1>3 DEF IframeTypeOK
  <1>5. InboxInv' /\ ReplyInv'
    BY <1>2, PageKept
  <1>6. NoneWaitsWithoutIframe'
    BY <1>2 DEF NoneWaitsWithoutIframe
  <1> QED
    BY <1>2, <1>4, <1>5, <1>6

LEMMA RequestTimeoutStep ==
    ASSUME IframeInv, NEW c \in Call, RequestTimeout(c)
    PROVE  IframeInv'
  <1> USE DEF IframeInv, RequestTimeout, pageVars
  <1>1. pending' = [k \in Kind |-> pending[k] \ {c}]
    BY DEF IframeTypeOK
  <1>2. /\ pc' \in [Call -> {"idle", "load", "answer", "settled"}]
        /\ answer' \in [Call -> Bap \cup {NoBap, "error"}]
        /\ pending' \in [Kind -> SUBSET Call]
        /\ \A k \in Kind : pending'[k] = {d \in Call : pc'[d] = "answer" /\ kind'[d] = k}
        /\ AnswerInv' /\ AnsweredAsPosted'
        /\ \A d \in Call : pc[d] \in {"answer", "settled"} => pc'[d] \in {"answer", "settled"}
        /\ \A d \in Call : pc'[d] = "answer" => pc[d] = "answer"
    BY <1>1, FailStep
  <1>3. IframeTypeOK'
    BY <1>2 DEF IframeTypeOK
  <1>4. InboxInv' /\ ReplyInv'
    BY <1>2, PageKept
  <1>5. NoneWaitsWithoutIframe'
    BY <1>2 DEF NoneWaitsWithoutIframe
  <1> QED
    BY <1>2, <1>3, <1>4, <1>5

\* RejectAllPending is a FailStep of all that wait: after it, nobody does.
LEMMA RejectAll ==
    ASSUME IframeInv, RejectAllPending, UNCHANGED <<kind, asked>>
    PROVE  /\ pc' \in [Call -> {"idle", "load", "answer", "settled"}]
           /\ answer' \in [Call -> Bap \cup {NoBap, "error"}]
           /\ pending' \in [Kind -> SUBSET Call]
           /\ \A k \in Kind : pending'[k] = {c \in Call : pc'[c] = "answer" /\ kind'[c] = k}
           /\ AnswerInv' /\ AnsweredAsPosted' /\ NoneWaitsWithoutIframe'
           /\ \A c \in Call : pc[c] \in {"answer", "settled"} => pc'[c] \in {"answer", "settled"}
  <1> DEFINE C == {c \in Call : pc[c] = "answer"}
  <1>1. Settled(C, "error")
    BY AllPending DEF IframeInv, RejectAllPending
  <1>2. pending' = [k \in Kind |-> pending[k] \ C]
    BY DEF IframeInv, IframeTypeOK, RejectAllPending
  <1>3. C \in SUBSET Call /\ \A c \in C : pc[c] # "settled"
    OBVIOUS
  <1>4. \A c \in Call : pc'[c] # "answer"
    BY <1>1 DEF Settled, IframeInv, IframeTypeOK
  <1> HIDE DEF C
  <1>5. /\ pc' \in [Call -> {"idle", "load", "answer", "settled"}]
        /\ answer' \in [Call -> Bap \cup {NoBap, "error"}]
        /\ pending' \in [Kind -> SUBSET Call]
        /\ \A k \in Kind : pending'[k] = {c \in Call : pc'[c] = "answer" /\ kind'[c] = k}
        /\ AnswerInv' /\ AnsweredAsPosted'
        /\ \A c \in Call : pc[c] \in {"answer", "settled"} => pc'[c] \in {"answer", "settled"}
    BY <1>1, <1>2, <1>3, FailStep
  <1> QED
    BY <1>4, <1>5 DEF NoneWaitsWithoutIframe

LEMMA SignerErrorStep ==
    ASSUME IframeInv, SignerError
    PROVE  IframeInv'
  <1> USE DEF SignerError, pageVars
  <1>1. /\ pc' \in [Call -> {"idle", "load", "answer", "settled"}]
        /\ answer' \in [Call -> Bap \cup {NoBap, "error"}]
        /\ pending' \in [Kind -> SUBSET Call]
        /\ \A k \in Kind : pending'[k] = {c \in Call : pc'[c] = "answer" /\ kind'[c] = k}
        /\ AnswerInv' /\ AnsweredAsPosted' /\ NoneWaitsWithoutIframe'
        /\ \A c \in Call : pc[c] \in {"answer", "settled"} => pc'[c] \in {"answer", "settled"}
    BY RejectAll
  <1>2. IframeTypeOK'
    BY <1>1 DEF IframeInv, IframeTypeOK
  <1>3. InboxInv' /\ ReplyInv'
    BY <1>1, PageKept
  <1> QED
    BY <1>1, <1>2, <1>3 DEF IframeInv

LEMMA DestroyStep ==
    ASSUME IframeInv, Destroy
    PROVE  IframeInv'
  <1> USE DEF Destroy
  <1>1. /\ pc' \in [Call -> {"idle", "load", "answer", "settled"}]
        /\ answer' \in [Call -> Bap \cup {NoBap, "error"}]
        /\ pending' \in [Kind -> SUBSET Call]
        /\ \A k \in Kind : pending'[k] = {c \in Call : pc'[c] = "answer" /\ kind'[c] = k}
        /\ AnswerInv' /\ AnsweredAsPosted' /\ NoneWaitsWithoutIframe'
        /\ \A c \in Call : pc[c] \in {"answer", "settled"} => pc'[c] \in {"answer", "settled"}
    BY RejectAll
  <1>2. /\ iframe' \in 0 .. appended' /\ initialized' \in BOOLEAN
        /\ loading' \subseteq 1 .. appended' /\ loaded' \subseteq 1 .. appended'
        /\ inbox' \in Seq(Message)
    <2>1. appended \in Nat /\ appended' = appended
      BY DEF IframeInv, IframeTypeOK
    <2>2. iframe' = 0 /\ iframe' \in 0 .. appended'
      BY <2>1
    <2>5. initialized' \in BOOLEAN
      OBVIOUS
    <2>3. loading' \subseteq 1 .. appended' /\ loaded' \subseteq 1 .. appended'
      BY <2>1 DEF IframeInv, IframeTypeOK
    <2>4. inbox' \in Seq(Message)
      OBVIOUS
    <2> QED
      BY <2>2, <2>3, <2>4, <2>5
  <1>5. IframeTypeOK'
    BY <1>1, <1>2 DEF IframeInv, IframeTypeOK
  <1>3. InboxInv'
    BY DEF InboxInv
  <1>4. ReplyInv'
    BY <1>1 DEF IframeInv, IframeTypeOK, ReplyInv, Reply
  <1> QED
    BY <1>1, <1>3, <1>4, <1>5 DEF IframeInv

LEMMA AnswerStep ==
    ASSUME IframeInv, NEW r \in replies, Answer(r)
    PROVE  IframeInv'
  <1> USE DEF IframeInv, Answer
  <1>1. r.id \in Call /\ r.by \in Bap \cup {"error"} /\ kind[r.id] \in Kind
    BY DEF IframeTypeOK, Reply
  <1>2. \A c \in Call : pc[c] \in {"answer", "settled"} => pc'[c] \in {"answer", "settled"}
    BY <1>1 DEF Settled, IframeTypeOK
  <1>3. \A c \in Call : pc'[c] = "answer" => pc[c] = "answer"
    BY <1>1 DEF Settled, IframeTypeOK
  <1>4. /\ pc' \in [Call -> {"idle", "load", "answer", "settled"}]
        /\ answer' \in [Call -> Bap \cup {NoBap, "error"}]
        /\ pending' \in [Kind -> SUBSET Call]
    BY <1>1 DEF Settled, IframeTypeOK
  <1>5. ASSUME NEW k \in Kind
        PROVE  pending'[k] = {c \in Call : pc'[c] = "answer" /\ kind'[c] = k}
    <2>1. CASE r.id \in pending[kind[r.id]]
      BY <1>1, <2>1 DEF Settled, IframeTypeOK
    <2>2. CASE r.id \notin pending[kind[r.id]]
      <3>1. pc' = pc /\ kind' = kind /\ pending' = pending
        BY <2>2 DEF IframeTypeOK
      <3> QED
        BY <3>1 DEF IframeTypeOK
    <2> QED
      BY <2>1, <2>2
  <1>6. IframeTypeOK'
    BY <1>4, <1>5 DEF IframeTypeOK
  <1>7. InboxInv'
    <2>1. \A i \in 1 .. Len(inbox) : inbox[i] \in Message
      BY DEF IframeTypeOK
    <2> QED
      BY <1>2, <2>1, MessageType DEF InboxInv
  <1>8. ReplyInv'
    BY <1>2 DEF ReplyInv, IframeTypeOK, Reply
  <1>9. AnswerInv' /\ AnsweredAsPosted'
    BY <1>1, IframeAssumption
    DEF AnswerInv, AnsweredAsPosted, ReplyInv, Settled, IframeTypeOK
  <1>10. NoneWaitsWithoutIframe'
    BY <1>3 DEF NoneWaitsWithoutIframe
  <1> QED
    BY <1>6, <1>7, <1>8, <1>9, <1>10

\* Its request is posted behind the identity; or it throws; or the iframe is not
\* there to hear it.
LEMMA AskStep ==
    ASSUME IframeInv, NEW c \in Call, Ask(c)
    PROVE  IframeInv'
  <1> USE DEF IframeInv, Ask
  <1>1. pc[c] \in {"idle", "load"} /\ kind[c] \in Kind
    BY DEF IframeTypeOK
  <1>2. inbox \in Seq(Message) /\ replies \subseteq Reply
    BY DEF IframeTypeOK
  <1>3. \A i \in 1 .. Len(inbox) : inbox[i] \in Message
    BY <1>2
  <1>4. CASE Settled({c}, "error") /\ UNCHANGED <<pending, inbox, asked>>
    <2>1. pending' = [k \in Kind |-> pending[k] \ {c}]
      BY <1>1, <1>4 DEF IframeTypeOK
    <2>2. /\ pc' \in [Call -> {"idle", "load", "answer", "settled"}]
          /\ answer' \in [Call -> Bap \cup {NoBap, "error"}]
          /\ pending' \in [Kind -> SUBSET Call]
          /\ \A k \in Kind : pending'[k] = {d \in Call : pc'[d] = "answer" /\ kind'[d] = k}
          /\ AnswerInv' /\ AnsweredAsPosted'
          /\ \A d \in Call : pc[d] \in {"answer", "settled"} => pc'[d] \in {"answer", "settled"}
          /\ \A d \in Call : pc'[d] = "answer" => pc[d] = "answer"
      BY <1>1, <1>4, <2>1, FailStep
    <2>3. IframeTypeOK'
      BY <1>4, <2>2 DEF IframeTypeOK
    <2>4. InboxInv' /\ ReplyInv'
      BY <1>4, <2>2, PageKept
    <2>5. NoneWaitsWithoutIframe'
      BY <2>2 DEF NoneWaitsWithoutIframe
    <2> QED
      BY <2>2, <2>3, <2>4, <2>5
  <1>5. CASE /\ currentBapId # NoBap /\ iframe # 0
             /\ inbox' = Posted(<<[type |-> "SET_IDENTITY", bapId |-> currentBapId],
                                  [type |-> "REQUEST", id |-> c]>>)
             /\ pending' = [pending EXCEPT ![kind[c]] = @ \cup {c}]
             /\ pc' = [pc EXCEPT ![c] = "answer"]
             /\ asked' = [asked EXCEPT ![c] = currentBapId]
             /\ UNCHANGED answer
    <2> DEFINE set == [type |-> "SET_IDENTITY", bapId |-> currentBapId]
               req == [type |-> "REQUEST", id |-> c]
    <2>1. currentBapId \in Bap /\ set \in Message /\ req \in Message
      BY <1>5 DEF IframeTypeOK, Message
    <2>2. inbox' = inbox \/ inbox' = inbox \o <<set, req>>
      BY <1>5 DEF Posted
    <2>3. inbox' \in Seq(Message)
      BY <1>2, <2>1, <2>2
    <2>4. /\ pc' \in [Call -> {"idle", "load", "answer", "settled"}]
          /\ pending' \in [Kind -> SUBSET Call]
          /\ asked' \in [Call -> Bap \cup {NoBap}]
      BY <1>1, <1>5, <2>1 DEF IframeTypeOK
    <2>5. ASSUME NEW k \in Kind
          PROVE  pending'[k] = {d \in Call : pc'[d] = "answer" /\ kind'[d] = k}
      BY <1>1, <1>5 DEF IframeTypeOK
    <2>6. IframeTypeOK'
      BY <1>5, <2>3, <2>4, <2>5 DEF IframeTypeOK
    <2>7. \A d \in Call : pc[d] \in {"answer", "settled"} =>
                /\ pc'[d] \in {"answer", "settled"}
                /\ asked'[d] = asked[d]
      BY <1>1, <1>5 DEF IframeTypeOK
    <2>8. InboxInv'
      <3>1. CASE inbox' = inbox
        BY <1>3, <2>7, <3>1, MessageType DEF InboxInv
      <3>2. CASE inbox' = inbox \o <<set, req>>
        <4> DEFINE n == Len(inbox)
        <4>1. n \in Nat /\ Len(inbox') = n + 2
          BY <1>2, <3>2
        <4>2. \A i \in 1 .. n : inbox'[i] = inbox[i]
          BY <1>2, <3>2
        <4>3. inbox'[n + 1] = set /\ inbox'[n + 2] = req
          BY <1>2, <3>2
        <4>4. ASSUME NEW i \in 1 .. n, inbox'[i].type = "REQUEST"
              PROVE  /\ pc'[inbox'[i].id] \in {"answer", "settled"}
                     /\ i = 1 => told' = asked'[inbox'[i].id]
                     /\ i > 1 => /\ inbox'[i - 1].type = "SET_IDENTITY"
                                 /\ inbox'[i - 1].bapId = asked'[inbox'[i].id]
          <5>1. inbox'[i] = inbox[i] /\ inbox[i].id \in Call
            BY <1>3, <4>2, <4>4, MessageType
          <5>2. i > 1 => inbox'[i - 1] = inbox[i - 1]
            BY <4>1, <4>2
          <5>3. told' = told
            OBVIOUS
          <5> QED
            BY <2>7, <4>4, <5>1, <5>2, <5>3 DEF InboxInv
        <4>5. pc'[c] = "answer" /\ asked'[c] = currentBapId
          BY <1>5 DEF IframeTypeOK
        <4>6. ASSUME NEW i \in 1 .. Len(inbox'), inbox'[i].type = "REQUEST", i \notin 1 .. n
              PROVE  /\ i = n + 2 /\ inbox'[i].id = c /\ i > 1 /\ i # 1
                     /\ inbox'[i - 1] = set
          <5>1. i = n + 1 \/ i = n + 2
            BY <4>1, <4>6
          <5>2. i # n + 1
            BY <4>3, <4>6
          <5>3. i = n + 2 /\ i - 1 = n + 1 /\ i > 1 /\ i # 1
            BY <4>1, <5>1, <5>2
          <5> QED
            BY <4>3, <5>3
        <4> HIDE DEF n
        <4>7. ASSUME NEW i \in 1 .. Len(inbox'), inbox'[i].type = "REQUEST"
              PROVE  /\ pc'[inbox'[i].id] \in {"answer", "settled"}
                     /\ i = 1 => told' = asked'[inbox'[i].id]
                     /\ i > 1 => /\ inbox'[i - 1].type = "SET_IDENTITY"
                                 /\ inbox'[i - 1].bapId = asked'[inbox'[i].id]
          <5>1. CASE i \in 1 .. n
            BY <4>4, <4>7, <5>1
          <5>2. CASE i \notin 1 .. n
            BY <4>5, <4>6, <4>7, <5>2
          <5> QED
            BY <5>1, <5>2
        <4> QED
          BY <4>7 DEF InboxInv
      <3> QED
        BY <2>2, <3>1, <3>2
    <2>9. ReplyInv'
      BY <1>2, <2>7 DEF ReplyInv, Reply
    <2>10. AnswerInv'
      BY <1>1, <1>5 DEF AnswerInv, IframeTypeOK
    <2>11. AnsweredAsPosted'
      BY <1>1, <1>5, IframeAssumption DEF AnswerInv, AnsweredAsPosted, IframeTypeOK
    <2>12. NoneWaitsWithoutIframe'
      BY <1>5 DEF NoneWaitsWithoutIframe
    <2> QED
      BY <2>6, <2>8, <2>9, <2>10, <2>11, <2>12
  <1> QED
    BY <1>4, <1>5 DEF Request

\* The page reads the identity, or a request: then it is the identity it was told last.
LEMMA ReadMessageStep ==
    ASSUME IframeInv, ReadMessage
    PROVE  IframeInv'
  <1> DEFINE m == Head(inbox)
  <1> USE DEF IframeInv, ReadMessage, fieldVars, callVars
  <1>1. inbox \in Seq(Message) /\ replies \subseteq Reply /\ inbox # <<>>
    BY DEF IframeTypeOK
  <1>2. m \in Message /\ m = inbox[1] /\ 1 \in 1 .. Len(inbox)
    BY <1>1
  <1>3. inbox' \in Seq(Message) /\ Len(inbox') = Len(inbox) - 1
    BY <1>1
  <1>4. \A i \in 1 .. Len(inbox') : i + 1 \in 1 .. Len(inbox) /\ inbox'[i] = inbox[i + 1]
    BY <1>1, <1>3
  <1>5. told' \in Bap \cup {NoBap} /\ replies' \subseteq Reply
    <2>1. CASE m.type = "SET_IDENTITY"
      BY <1>1, <1>2, <2>1, MessageType DEF IframeTypeOK
    <2>2. CASE m.type = "REQUEST"
      BY <1>1, <1>2, <2>2, MessageType DEF IframeTypeOK, Reply
    <2> QED
      BY <2>1, <2>2
  <1>6. IframeTypeOK'
    BY <1>3, <1>5 DEF IframeTypeOK
  <1>7. InboxInv'
    <2> SUFFICES ASSUME NEW i \in 1 .. Len(inbox'), inbox'[i].type = "REQUEST"
                 PROVE  /\ pc[inbox'[i].id] \in {"answer", "settled"}
                        /\ i = 1 => told' = asked[inbox'[i].id]
                        /\ i > 1 => /\ inbox'[i - 1].type = "SET_IDENTITY"
                                    /\ inbox'[i - 1].bapId = asked[inbox'[i].id]
      BY DEF InboxInv
    <2>1. i \in Nat /\ i >= 1 /\ i + 1 \in 1 .. Len(inbox) /\ inbox'[i] = inbox[i + 1]
      BY <1>4
    <2>2. /\ pc[inbox'[i].id] \in {"answer", "settled"}
          /\ inbox[(i + 1) - 1].type = "SET_IDENTITY"
          /\ inbox[(i + 1) - 1].bapId = asked[inbox'[i].id]
      BY <2>1 DEF InboxInv
    <2>3. inbox[i].type = "SET_IDENTITY" /\ inbox[i].bapId = asked[inbox'[i].id]
      BY <2>1, <2>2
    <2>4. i = 1 => told' = asked[inbox'[i].id]
      BY <1>2, <2>3
    <2>5. i > 1 => inbox'[i - 1] = inbox[i]
      <3>1. i > 1 => i - 1 \in 1 .. Len(inbox') /\ (i - 1) + 1 = i
        BY <1>1, <1>3, <2>1
      <3> QED
        BY <1>4, <3>1
    <2> QED
      BY <2>2, <2>3, <2>4, <2>5
  <1>8. ReplyInv'
    <2>1. CASE m.type = "SET_IDENTITY"
      BY <2>1 DEF ReplyInv
    <2>2. CASE m.type = "REQUEST"
      <3>1. m.id \in Call /\ pc[m.id] \in {"answer", "settled"} /\ told = asked[m.id]
        BY <1>2, <2>2, MessageType DEF InboxInv
      <3>2. PICK by \in ({told} \ {NoBap}) \cup {"error"} :
                replies' = replies \cup {[id |-> m.id, by |-> by]}
        BY <2>2
      <3>3. by \in Bap => by = told
        BY <3>2, IframeAssumption
      <3> QED
        BY <3>1, <3>2, <3>3 DEF ReplyInv
    <2> QED
      BY <2>1, <2>2
  <1>9. AnswerInv' /\ AnsweredAsPosted' /\ NoneWaitsWithoutIframe'
    BY DEF AnswerInv, AnsweredAsPosted, NoneWaitsWithoutIframe
  <1> QED
    BY <1>6, <1>7, <1>8, <1>9

----------------------------------------------------------------------------

LEMMA NextIframe == IframeInv /\ [IframeNext]_vars => IframeInv'
  <1> SUFFICES ASSUME IframeInv, [IframeNext]_vars PROVE IframeInv'
    OBVIOUS
  <1>1. CASE \E c \in Call : Open(c) \/ Ask(c) \/ LoadFails(c) \/ RequestTimeout(c)
    BY <1>1, OpenStep, AskStep, LoadFailsStep, RequestTimeoutStep
  <1>2. CASE \E id \in Bap : SetIdentity(id)
    BY <1>2, SetIdentityStep
  <1>3. CASE \E n \in loading : Loaded(n)
    BY <1>3, LoadedStep
  <1>4. CASE ReadMessage
    BY <1>4, ReadMessageStep
  <1>5. CASE \E r \in replies : Answer(r)
    BY <1>5, AnswerStep
  <1>6. CASE SignerError
    BY <1>6, SignerErrorStep
  <1>7. CASE Destroy
    BY <1>7, DestroyStep
  <1>8. CASE UNCHANGED vars
    BY <1>8
    DEF vars, fieldVars, pageVars, callVars, IframeInv, IframeTypeOK, InboxInv, ReplyInv,
        AnswerInv, AnsweredAsPosted, NoneWaitsWithoutIframe
  <1> QED
    BY <1>1, <1>2, <1>3, <1>4, <1>5, <1>6, <1>7, <1>8 DEF IframeNext

\* The invariant holds in every run.
THEOREM IframeInvariant == IframeSpec => []IframeInv
  BY InitIframe, NextIframe, PTL DEF IframeSpec

\* Types, and the maps hold exactly the calls that wait, each in the map of its kind.
THEOREM IframeTypeCorrect == IframeSpec => []IframeTypeOK
  BY IframeInvariant, PTL DEF IframeInv

\* The request at the head of the inbox is the first case of InboxInv.
LEMMA InvSignedAsPosted == IframeInv => SignedAsPosted
  <1> SUFFICES ASSUME IframeInv PROVE SignedAsPosted
    OBVIOUS
  <1>1. ASSUME inbox # <<>>, Head(inbox).type = "REQUEST"
        PROVE  told = asked[Head(inbox).id]
    <2>1. Head(inbox) = inbox[1] /\ 1 \in 1 .. Len(inbox)
      BY <1>1 DEF IframeInv, IframeTypeOK
    <2> QED
      BY <1>1, <2>1 DEF IframeInv, InboxInv
  <1> QED
    BY <1>1 DEF IframeInv, SignedAsPosted

\* However many calls and changes of identity there are: a request and its answer are
\* of the identity that was set when it was posted (signer.ts:191-226).
THEOREM AnswersAreAsPosted == IframeSpec => []SignedAsPosted
  BY IframeInvariant, InvSignedAsPosted, PTL

\* destroy() and SIGNER_ERROR leave no request of any kind behind (signer.ts:627-693).
THEOREM NobodyLeftBehind == IframeSpec => []NoneWaitsWithoutIframe
  BY IframeInvariant, PTL DEF IframeInv
=============================================================================
