------------------------ MODULE SignerClientProofs -------------------------
(***************************************************************************)
(* Proofs about CWISigner and SignerClient, for any calls, instances and   *)
(* identities.  Both run the same steps of an instance, so what is true of *)
(* instances, their pages and their calls is one invariant, SignerInv,     *)
(* that each of those steps keeps, whatever the module around it does.     *)
(***************************************************************************)
EXTENDS SignerClient, TLAPS

----------------------------------------------------------------------------
(* What a page is told before it reads a message                           *)

\* Before it reads message n of its inbox, the page p has last been told one of the
\* identities S, or none: by the message k (0 stands for those it has read) it is told
\* one of S, and by those between k and n nothing else.
ToldFrom(S, p, k, n) ==
    /\ k = 0 => p.bapId \in S \cup {NoBap}
    /\ k > 0 => p.inbox[k].type = "SET_IDENTITY"
    /\ \A j \in 1 .. n - 1 :
          j >= k /\ p.inbox[j].type = "SET_IDENTITY" => p.inbox[j].bapId \in S

ToldOf(S, p, n) == \E k \in 0 .. n - 1 : ToldFrom(S, p, k, n)

----------------------------------------------------------------------------
(* The invariant of instances, pages and calls                             *)

InstanceTypes ==
    /\ cwi \in [Signer -> Fields]
    /\ page \in [Signer -> Page]
    /\ pc \in [Call -> Underway \cup {"idle", "settled"}]
    /\ via \in [Call -> Signer]
    /\ handshake \in [Call -> {"open", "resolved", "rejected"}]
    /\ answer \in [Call -> Bap \cup {NoBap, "error"}]
    /\ latest \in [Signer -> Bap \cup {NoBap}]
    /\ since \in [Call -> SUBSET Bap]

\* The pending requests are the calls that await an answer, a registered promise is
\* awaited, and the instance has the identity it was last given.
FieldsInv(w) ==
    /\ cwi[w].pending = {c \in Call : pc[c] = "answer" /\ via[c] = w}
    /\ \A c \in Call : cwi[w].waiter = c =>
          pc[c] \in {"locate", "handshake"} /\ via[c] = w /\ handshake[c] = "open"
    /\ cwi[w].currentBapId = latest[w]

\* The request or the reply of the call c, at the instance w.
Requested(c, w) == pc[c] \in {"answer", "settled"} /\ via[c] = w

\* Nothing is posted to an iframe before its page is there; a request in the inbox will
\* be read by a page that has been told an identity of its call, and a reply is by one.
PageInv(w) ==
    /\ page[w].loaded \subseteq 1 .. page[w].appended
    /\ cwi[w].iframe \in 0 .. page[w].appended
    /\ ~cwi[w].destroyed /\ cwi[w].iframe \notin page[w].loaded =>
          page[w].inbox = <<>> /\ page[w].bapId = NoBap
    /\ \A i \in 1 .. Len(page[w].inbox) : page[w].inbox[i].type = "CWI" =>
          /\ Requested(page[w].inbox[i].id, w)
          /\ pc[page[w].inbox[i].id] = "answer" =>
                ToldOf(since[page[w].inbox[i].id], page[w], i)
    /\ \A r \in page[w].replies :
          /\ Requested(r.id, w)
          /\ pc[r.id] = "answer" /\ r.by \in Bap => r.by \in since[r.id]

\* A call that is ready to post, or has posted, was told of every identity since; its
\* request will be read by a page that has been told one of them.
CallInv(c) ==
    /\ pc[c] \in {"send", "answer"} => latest[via[c]] \in since[c]
    /\ pc[c] = "send" /\ ~cwi[via[c]].destroyed =>
          ToldOf(since[c], page[via[c]], Len(page[via[c]].inbox) + 1)
    /\ pc[c] = "answer" => ~cwi[via[c]].destroyed
    /\ pc[c] # "settled" => answer[c] = NoBap
    /\ answer[c] \in Bap => answer[c] \in since[c]

SignerInv ==
    /\ InstanceTypes
    /\ \A w \in Signer : FieldsInv(w) /\ PageInv(w)
    /\ \A c \in Call : CallInv(c)

----------------------------------------------------------------------------
(* Lemmas on ToldOf                                                        *)

\* What the page may hear is a SET_IDENTITY or a request.
LEMMA MessageType ==
    ASSUME NEW m \in Message
    PROVE  \/ m.type = "SET_IDENTITY" /\ m.bapId \in Bap
           \/ m.type = "CWI" /\ m.id \in Call
  BY DEF Message

\* A page was told one of S, then of T, if S is part of T.
LEMMA ToldMonotone ==
    ASSUME NEW S, NEW T, S \subseteq T, NEW p, NEW n \in Nat, ToldOf(S, p, n)
    PROVE  ToldOf(T, p, n)
  BY DEF ToldOf, ToldFrom

\* It is the messages before n that count, and the identity before them.
LEMMA ToldPrefix ==
    ASSUME NEW S, NEW p, NEW q, NEW n \in Nat, ToldOf(S, p, n),
           q.bapId = p.bapId, \A i \in 1 .. n - 1 : q.inbox[i] = p.inbox[i]
    PROVE  ToldOf(S, q, n)
  BY DEF ToldOf, ToldFrom

\* More messages follow that tell of S only.
LEMMA ToldOn ==
    ASSUME NEW S, NEW p, NEW n \in Nat, NEW m \in Nat, n <= m, ToldOf(S, p, n),
           \A i \in n .. m - 1 : p.inbox[i].type = "SET_IDENTITY" => p.inbox[i].bapId \in S
    PROVE  ToldOf(S, p, m)
<1>1. PICK k \in 0 .. n - 1 : ToldFrom(S, p, k, n)
  BY DEF ToldOf
<1>2. k \in 0 .. m - 1 /\ ToldFrom(S, p, k, m)
  BY <1>1 DEF ToldFrom
<1> QED
  BY <1>2 DEF ToldOf

\* The page reads its first message, and the ones behind it move up.
LEMMA ToldRead ==
    ASSUME NEW S, NEW p \in Page, p.inbox # <<>>, NEW q, q.inbox = Tail(p.inbox),
           \/ Head(p.inbox).type = "CWI" /\ q.bapId = p.bapId
           \/ Head(p.inbox).type = "SET_IDENTITY" /\ q.bapId = Head(p.inbox).bapId,
           NEW n \in 1 .. Len(p.inbox), ToldOf(S, p, n + 1)
    PROVE  ToldOf(S, q, n)
<1>1. PICK k \in 0 .. n : ToldFrom(S, p, k, n + 1)
  BY DEF ToldOf
<1>2. p.inbox \in Seq(Message) /\ Len(p.inbox) \in Nat \ {0} /\ Head(p.inbox) = p.inbox[1]
  BY DEF Page
<1>3. \A i \in 1 .. n - 1 : q.inbox[i] = p.inbox[i + 1] /\ i + 1 \in 1 .. n
  BY <1>2
<1>4. CASE k = 0
  <2>1. q.bapId \in S \cup {NoBap}
    BY <1>1, <1>2, <1>4 DEF ToldFrom
  <2>2. ToldFrom(S, q, 0, n)
    BY <1>1, <1>3, <1>4, <2>1 DEF ToldFrom
  <2> QED
    BY <2>2 DEF ToldOf
<1>5. CASE k = 1
  <2>1. q.bapId \in S
    BY <1>1, <1>2, <1>5 DEF ToldFrom
  <2>2. ToldFrom(S, q, 0, n)
    BY <1>1, <1>3, <1>5, <2>1 DEF ToldFrom
  <2> QED
    BY <2>2 DEF ToldOf
<1>6. CASE k > 1
  <2>1. k - 1 \in 0 .. n - 1 /\ k - 1 \in 1 .. n - 1
    BY <1>6
  <2>2. ToldFrom(S, q, k - 1, n)
    BY <1>1, <1>3, <1>6, <2>1 DEF ToldFrom
  <2> QED
    BY <2>1, <2>2 DEF ToldOf
<1> QED
  BY <1>4, <1>5, <1>6
----------------------------------------------------------------------------
(* What a step leaves of the pages and calls it is not about               *)

\* The call c, if it has posted its request, has not gone back.
MovesOn(c) ==
    pc[c] \in {"answer", "settled"} =>
        /\ pc'[c] \in {pc[c], "settled"}
        /\ via'[c] = via[c]
        /\ since[c] \subseteq since'[c]

\* The instance w has the iframe it had, and is destroyed only if it was.
SameFrame(w) ==
    cwi'[w].iframe = cwi[w].iframe /\ cwi'[w].destroyed = cwi[w].destroyed

\* The page q is p with SET_IDENTITY b posted to it, not at all or some times.
Tells(s, p, q, b) ==
    /\ q \in Page
    /\ q.appended = p.appended /\ q.loaded = p.loaded
    /\ q.bapId = p.bapId /\ q.replies = p.replies
    /\ Len(q.inbox) >= Len(p.inbox)
    /\ \A i \in 1 .. Len(p.inbox) : q.inbox[i] = p.inbox[i]
    /\ \A i \in Len(p.inbox) + 1 .. Len(q.inbox) :
          q.inbox[i] = [type |-> "SET_IDENTITY", bapId |-> b]
    /\ s.iframe \notin p.loaded => q.inbox = p.inbox

LEMMA TellsNothing ==
    ASSUME NEW s, NEW p \in Page, NEW b PROVE Tells(s, p, p, b)
<1>1. Len(p.inbox) \in Nat
  BY DEF Page
<1> QED
  BY <1>1 DEF Tells

LEMMA TellsOnce ==
    ASSUME NEW s, NEW p \in Page, NEW b \in Bap
    PROVE  Tells(s, p, Posted(p, s, [type |-> "SET_IDENTITY", bapId |-> b]), b)
<1> DEFINE m == [type |-> "SET_IDENTITY", bapId |-> b]
           q == [p EXCEPT !.inbox = Append(@, m)]
<1>1. m \in Message
  BY DEF Message
<1>2. p.inbox \in Seq(Message)
  BY DEF Page
<1>3. /\ Append(p.inbox, m) \in Seq(Message) /\ Len(Append(p.inbox, m)) = Len(p.inbox) + 1
      /\ \A i \in 1 .. Len(p.inbox) : Append(p.inbox, m)[i] = p.inbox[i]
      /\ Append(p.inbox, m)[Len(p.inbox) + 1] = m
      /\ Len(p.inbox) \in Nat
  BY <1>1, <1>2
<1>4. q \in Page /\ q.inbox = Append(p.inbox, m)
  BY <1>3 DEF Page
<1>5. s.iframe \in p.loaded => Tells(s, p, q, b)
  <2>1. /\ q.appended = p.appended /\ q.loaded = p.loaded
        /\ q.bapId = p.bapId /\ q.replies = p.replies
    BY DEF Page
  <2>2. \A i \in Len(p.inbox) + 1 .. Len(q.inbox) : q.inbox[i] = m
    BY <1>3, <1>4
  <2> QED
    BY <1>3, <1>4, <2>1, <2>2 DEF Tells
<1> QED
  BY <1>5, TellsNothing DEF Posted

LEMMA TellsTwice ==
    ASSUME NEW s, NEW p \in Page, NEW q, NEW r, NEW b, Tells(s, p, q, b), Tells(s, q, r, b)
    PROVE  Tells(s, p, r, b)
<1>1. Len(p.inbox) \in Nat /\ Len(q.inbox) \in Nat /\ Len(r.inbox) \in Nat
  BY DEF Page, Tells
<1> QED
  BY <1>1 DEF Tells

\* A page that is told nothing but b has been told one of S if b is of S.
LEMMA ToldThen ==
    ASSUME NEW S, NEW s, NEW p \in Page, NEW q, NEW b \in S, Tells(s, p, q, b),
           ToldOf(S, p, Len(p.inbox) + 1)
    PROVE  ToldOf(S, q, Len(q.inbox) + 1)
<1>1. Len(p.inbox) \in Nat /\ Len(q.inbox) \in Nat /\ Len(q.inbox) >= Len(p.inbox)
  BY DEF Page, Tells
<1>2. ToldOf(S, q, Len(p.inbox) + 1)
  BY <1>1, ToldPrefix DEF Tells
<1>3. \A i \in Len(p.inbox) + 1 .. (Len(q.inbox) + 1) - 1 :
         q.inbox[i].type = "SET_IDENTITY" => q.inbox[i].bapId \in S
  BY <1>1 DEF Tells
<1> QED
  BY <1>1, <1>2, <1>3, ToldOn

\* So does one that was told b last.
LEMMA ToldLast ==
    ASSUME NEW S, NEW s, NEW p \in Page, NEW q, NEW b \in S, Tells(s, p, q, b),
           Len(q.inbox) > Len(p.inbox)
    PROVE  ToldOf(S, q, Len(q.inbox) + 1)
<1>1. Len(p.inbox) \in Nat /\ Len(q.inbox) \in Nat
  BY DEF Page, Tells
<1>2. ToldFrom(S, q, Len(q.inbox), Len(q.inbox) + 1)
  BY <1>1 DEF Tells, ToldFrom
<1> QED
  BY <1>1, <1>2 DEF ToldOf

LEMMA PageTold ==
    ASSUME SignerInv, NEW w \in Signer, \A c \in Call : MovesOn(c), SameFrame(w),
           NEW b, Tells(cwi[w], page[w], page'[w], b)
    PROVE  PageInv(w)'
<1> DEFINE p == page[w]
           q == page'[w]
<1>1. p \in Page /\ PageInv(w)
  BY DEF SignerInv, InstanceTypes
<1>2. /\ p.inbox \in Seq(Message) /\ Len(p.inbox) \in Nat /\ p.replies \subseteq Reply
      /\ q.inbox \in Seq(Message) /\ Len(q.inbox) \in Nat
  BY <1>1 DEF Page, Tells
<1>3. ASSUME NEW i \in 1 .. Len(q.inbox), q.inbox[i].type = "CWI"
      PROVE  /\ pc'[q.inbox[i].id] \in {"answer", "settled"} /\ via'[q.inbox[i].id] = w
             /\ pc'[q.inbox[i].id] = "answer" => ToldOf(since'[q.inbox[i].id], q, i)
  <2>1. i \in 1 .. Len(p.inbox) /\ q.inbox[i] = p.inbox[i]
    BY <1>2, <1>3 DEF Tells
  <2>2. PICK c \in Call : c = q.inbox[i].id
    BY <1>2, <1>3, <2>1, MessageType
  <2>3. Requested(c, w) /\ (pc[c] = "answer" => ToldOf(since[c], p, i))
    BY <1>1, <1>3, <2>1, <2>2 DEF PageInv
  <2>4. pc'[c] \in {"answer", "settled"} /\ via'[c] = w
    BY <2>3 DEF Requested, MovesOn
  <2>5. ASSUME pc'[c] = "answer" PROVE ToldOf(since'[c], q, i)
    <3>1. ToldOf(since[c], p, i) /\ since[c] \subseteq since'[c]
      BY <2>3, <2>5 DEF Requested, MovesOn
    <3>2. ToldOf(since'[c], p, i)
      BY <3>1, ToldMonotone
    <3> QED
      BY <1>2, <2>1, <3>2, ToldPrefix DEF Tells
  <2> QED
    BY <2>2, <2>4, <2>5
<1>4. ASSUME NEW r \in q.replies
      PROVE  /\ pc'[r.id] \in {"answer", "settled"} /\ via'[r.id] = w
             /\ pc'[r.id] = "answer" /\ r.by \in Bap => r.by \in since'[r.id]
  <2>1. r \in p.replies /\ r.id \in Call
    BY <1>2 DEF Tells, Reply
  <2> QED
    BY <1>1, <2>1 DEF PageInv, Requested, MovesOn
<1>5. /\ q.loaded \subseteq 1 .. q.appended
      /\ cwi'[w].iframe \in 0 .. q.appended
      /\ ~cwi'[w].destroyed /\ cwi'[w].iframe \notin q.loaded => q.inbox = <<>> /\ q.bapId = NoBap
  BY <1>1 DEF PageInv, Tells, SameFrame
<1> QED
  BY <1>3, <1>4, <1>5 DEF PageInv, Requested

LEMMA PageFrame ==
    ASSUME SignerInv, NEW w \in Signer, \A c \in Call : MovesOn(c), SameFrame(w),
           page'[w] = page[w]
    PROVE  PageInv(w)'
<1>1. page[w] \in Page
  BY DEF SignerInv, InstanceTypes
<1> QED
  BY <1>1, TellsNothing, PageTold

\* A call that stays where it is, while its page is told an identity that was set.
LEMMA CallTold ==
    ASSUME SignerInv, NEW c \in Call, NEW b,
           pc'[c] = pc[c], via'[c] = via[c], answer'[c] = answer[c],
           since[c] \subseteq since'[c], SameFrame(via[c]),
           Tells(cwi[via[c]], page[via[c]], page'[via[c]], b),
           pc[c] \in {"send", "answer"} => b \in since'[c] /\ latest'[via[c]] \in since'[c]
    PROVE  CallInv(c)'
<1>1. via[c] \in Signer /\ page[via[c]] \in Page /\ CallInv(c)
  BY DEF SignerInv, InstanceTypes
<1>2. ASSUME pc[c] = "send", ~cwi[via[c]].destroyed
      PROVE  ToldOf(since'[c], page'[via[c]], Len(page'[via[c]].inbox) + 1)
  <2>1. ToldOf(since[c], page[via[c]], Len(page[via[c]].inbox) + 1)
    BY <1>1, <1>2 DEF CallInv
  <2>2. Len(page[via[c]].inbox) + 1 \in Nat
    BY <1>1 DEF Page
  <2>3. ToldOf(since'[c], page[via[c]], Len(page[via[c]].inbox) + 1)
    BY <2>1, <2>2, ToldMonotone
  <2> QED
    BY <1>1, <1>2, <2>3, ToldThen
<1> QED
  BY <1>1, <1>2 DEF CallInv, SameFrame

LEMMA CallFrame ==
    ASSUME SignerInv, NEW c \in Call,
           pc'[c] = pc[c], via'[c] = via[c], answer'[c] = answer[c],
           since'[c] = since[c], SameFrame(via[c]),
           latest'[via[c]] = latest[via[c]], page'[via[c]] = page[via[c]]
    PROVE  CallInv(c)'
<1>1. via[c] \in Signer /\ page[via[c]] \in Page /\ CallInv(c)
  BY DEF SignerInv, InstanceTypes
<1> QED
  BY <1>1 DEF CallInv, SameFrame
----------------------------------------------------------------------------
(* Steps of an instance and its page                                       *)

LEMMA InitSigner == SignerInit => SignerInv
<1> SUFFICES ASSUME SignerInit PROVE SignerInv
  OBVIOUS
<1> USE SignerAssumption DEF SignerInit
<1>1. InstanceTypes
  <2>1. [iframe |-> 0, initialized |-> FALSE, destroyed |-> FALSE,
         currentBapId |-> NoBap, handshakeComplete |-> FALSE,
         waiter |-> NoCall, timers |-> {}, pending |-> {}] \in Fields
    BY DEF Fields
  <2>2. [appended |-> 0, loaded |-> {}, inbox |-> <<>>, bapId |-> NoBap,
         replies |-> {}] \in Page
    BY DEF Page
  <2>3. via \in [Call -> Signer]
    OBVIOUS
  <2> QED
    BY <2>1, <2>2, <2>3 DEF InstanceTypes
<1>2. ASSUME NEW w \in Signer PROVE FieldsInv(w) /\ PageInv(w)
  <2>1. /\ cwi[w].pending = {} /\ cwi[w].waiter = NoCall /\ cwi[w].iframe = 0
        /\ cwi[w].currentBapId = latest[w]
        /\ page[w].appended = 0 /\ page[w].loaded = {} /\ page[w].inbox = <<>>
        /\ page[w].bapId = NoBap /\ page[w].replies = {}
    OBVIOUS
  <2>2. FieldsInv(w)
    BY <2>1 DEF FieldsInv
  <2>3. PageInv(w)
    BY <2>1 DEF PageInv
  <2> QED
    BY <2>2, <2>3
<1>3. \A c \in Call : CallInv(c)
  BY DEF CallInv
<1> QED
  BY <1>1, <1>2, <1>3 DEF SignerInv

LEMMA LoadPageStep ==
    ASSUME SignerInv, NEW w \in Signer, LoadPage(w)
    PROVE  SignerInv'
<1>1. PICK n \in 1 .. page[w].appended : page' = [page EXCEPT ![w].loaded = @ \cup {n}]
  BY DEF LoadPage
<1>2. UNCHANGED <<cwi, pc, via, handshake, answer, latest, since>>
  BY DEF LoadPage
<1>3. /\ page[w] \in Page
      /\ page'[w] = [page[w] EXCEPT !.loaded = @ \cup {n}]
      /\ \A v \in Signer : v # w => page'[v] = page[v]
  BY <1>1 DEF SignerInv, InstanceTypes
<1>4. /\ page'[w].loaded = page[w].loaded \cup {n}
      /\ page'[w].appended = page[w].appended /\ page'[w].inbox = page[w].inbox
      /\ page'[w].bapId = page[w].bapId /\ page'[w].replies = page[w].replies
  BY <1>3 DEF Page
<1>5. InstanceTypes'
  <2>1. page'[w] \in Page
    <3>1. page[w].appended \in Nat
      BY <1>3 DEF Page
    <3>2. page[w].loaded \cup {n} \in SUBSET Nat
      BY <1>3, <3>1 DEF Page
    <3> QED
      BY <1>3, <3>2 DEF Page
  <2> QED
    BY <1>1, <1>2, <2>1 DEF SignerInv, InstanceTypes
<1>6. \A c \in Call : MovesOn(c)
  BY <1>2 DEF MovesOn
<1>7. \A v \in Signer : FieldsInv(v)'
  BY <1>2 DEF SignerInv, FieldsInv
<1>8. ASSUME NEW v \in Signer PROVE PageInv(v)'
  <2>1. CASE v # w
    BY <1>2, <1>3, <1>6, <2>1, PageFrame DEF SameFrame
  <2>2. CASE v = w
    <3>1. \A S, i : i \in Nat /\ ToldOf(S, page[w], i) => ToldOf(S, page'[w], i)
      BY <1>4, ToldPrefix
    <3>2. PageInv(w) /\ Len(page[w].inbox) \in Nat
      BY <1>3 DEF SignerInv, Page
    <3> QED
      BY <1>2, <1>4, <2>2, <3>1, <3>2 DEF PageInv, Requested
  <2> QED
    BY <2>1, <2>2
<1>9. ASSUME NEW c \in Call PROVE CallInv(c)'
  <2>1. CASE via[c] # w
    BY <1>2, <1>3, <2>1, CallFrame DEF SignerInv, InstanceTypes, SameFrame
  <2>2. CASE via[c] = w
    <3>1. CallInv(c) /\ Len(page[w].inbox) + 1 \in Nat
      BY <1>3 DEF SignerInv, Page
    <3>2. ToldOf(since[c], page[w], Len(page[w].inbox) + 1)
             => ToldOf(since[c], page'[w], Len(page[w].inbox) + 1)
      BY <1>4, <3>1, ToldPrefix
    <3> QED
      BY <1>2, <1>4, <2>2, <3>1, <3>2 DEF CallInv
  <2> QED
    BY <2>1, <2>2
<1> QED
  BY <1>5, <1>7, <1>8, <1>9 DEF SignerInv

LEMMA ReadMessageStep ==
    ASSUME SignerInv, NEW w \in Signer, ReadMessage(w)
    PROVE  SignerInv'
<1> DEFINE m == Head(page[w].inbox)
<1>1. page[w].inbox # <<>> /\ UNCHANGED <<cwi, pc, via, handshake, answer, latest, since>>
  BY DEF ReadMessage
<1>2. /\ page \in [Signer -> Page] /\ page[w] \in Page /\ page[w].inbox \in Seq(Message)
      /\ Len(page[w].inbox) \in Nat /\ page[w].replies \subseteq Reply
      /\ PageInv(w)
  BY DEF SignerInv, InstanceTypes, Page
<1>3. /\ m = page[w].inbox[1] /\ m \in Message
      /\ Tail(page[w].inbox) \in Seq(Message)
      /\ Len(Tail(page[w].inbox)) = Len(page[w].inbox) - 1
      /\ \A i \in 1 .. Len(Tail(page[w].inbox)) :
            i + 1 \in 1 .. Len(page[w].inbox) /\ Tail(page[w].inbox)[i] = page[w].inbox[i + 1]
      /\ 1 \in 1 .. Len(page[w].inbox)
  BY <1>1, <1>2
<1>4. PICK q : /\ page' = [page EXCEPT ![w] = q]
               /\ q.inbox = Tail(page[w].inbox)
               /\ q.appended = page[w].appended /\ q.loaded = page[w].loaded
               /\ q \in Page
               /\ \/ m.type = "SET_IDENTITY" /\ q.bapId = m.bapId /\ q.replies = page[w].replies
                  \/ /\ m.type = "CWI" /\ q.bapId = page[w].bapId
                     /\ \E by \in ({page[w].bapId} \ {NoBap}) \cup {"error"} :
                           q.replies = page[w].replies \cup {[id |-> m.id, by |-> by]}
  <2>1. CASE /\ m.type = "SET_IDENTITY"
             /\ page' = [page EXCEPT ![w] = [[page[w] EXCEPT !.inbox = Tail(@)]
                                                EXCEPT !.bapId = m.bapId]]
    <3>1. m.bapId \in Bap
      BY <1>3, <2>1, MessageType
    <3> DEFINE q == [[page[w] EXCEPT !.inbox = Tail(@)] EXCEPT !.bapId = m.bapId]
    <3>2. /\ q.inbox = Tail(page[w].inbox) /\ q.appended = page[w].appended
          /\ q.loaded = page[w].loaded /\ q.bapId = m.bapId /\ q.replies = page[w].replies
          /\ q \in Page
      BY <1>2, <1>3, <3>1 DEF Page
    <3> QED
      BY <2>1, <3>2
  <2>2. ASSUME m.type = "CWI", NEW by \in ({page[w].bapId} \ {NoBap}) \cup {"error"},
               page' = [page EXCEPT ![w] = [[page[w] EXCEPT !.inbox = Tail(@)]
                           EXCEPT !.replies = @ \cup {[id |-> m.id, by |-> by]}]]
        PROVE  \E q : /\ page' = [page EXCEPT ![w] = q]
                      /\ q.inbox = Tail(page[w].inbox)
                      /\ q.appended = page[w].appended /\ q.loaded = page[w].loaded
                      /\ q \in Page
                      /\ m.type = "CWI" /\ q.bapId = page[w].bapId
                      /\ \E x \in ({page[w].bapId} \ {NoBap}) \cup {"error"} :
                            q.replies = page[w].replies \cup {[id |-> m.id, by |-> x]}
    <3>1. m.id \in Call /\ by \in Bap \cup {"error"}
      BY <1>2, <1>3, <2>2, MessageType DEF Page
    <3>2. page[w].replies \cup {[id |-> m.id, by |-> by]} \subseteq Reply
      BY <1>2, <3>1 DEF Reply
    <3> DEFINE q == [[page[w] EXCEPT !.inbox = Tail(@)]
                           EXCEPT !.replies = @ \cup {[id |-> m.id, by |-> by]}]
    <3>3. /\ q.inbox = Tail(page[w].inbox) /\ q.appended = page[w].appended
          /\ q.loaded = page[w].loaded /\ q.bapId = page[w].bapId
          /\ q.replies = page[w].replies \cup {[id |-> m.id, by |-> by]}
          /\ q \in Page
      BY <1>2, <1>3, <3>2 DEF Page
    <3> QED
      BY <2>2, <3>3
  <2> QED
    BY <2>1, <2>2 DEF ReadMessage
<1>5. page'[w] = q /\ \A v \in Signer : v # w => page'[v] = page[v]
  BY <1>2, <1>4
<1>6. InstanceTypes'
  BY <1>1, <1>4 DEF SignerInv, InstanceTypes
<1>7. \A c \in Call : MovesOn(c)
  BY <1>1 DEF MovesOn
<1>8. \A v \in Signer : FieldsInv(v)'
  BY <1>1 DEF SignerInv, FieldsInv
<1>9. \A S : \A n \in 1 .. Len(page[w].inbox) : ToldOf(S, page[w], n + 1) => ToldOf(S, q, n)
  BY <1>1, <1>2, <1>4, ToldRead
<1>10. ASSUME NEW v \in Signer PROVE PageInv(v)'
  <2>1. CASE v # w
    BY <1>1, <1>5, <1>7, <2>1, PageFrame DEF SameFrame
  <2>2. CASE v = w
    <3>1. /\ q.loaded \subseteq 1 .. q.appended
          /\ cwi[w].iframe \in 0 .. q.appended
          /\ ~cwi[w].destroyed /\ cwi[w].iframe \notin q.loaded => q.inbox = <<>> /\ q.bapId = NoBap
      BY <1>1, <1>2, <1>4 DEF PageInv
    <3>2. ASSUME NEW i \in 1 .. Len(q.inbox), q.inbox[i].type = "CWI"
          PROVE  /\ Requested(q.inbox[i].id, w)
                 /\ pc[q.inbox[i].id] = "answer" => ToldOf(since[q.inbox[i].id], q, i)
      <4>1. q.inbox[i] = page[w].inbox[i + 1] /\ i + 1 \in 1 .. Len(page[w].inbox)
        BY <1>3, <1>4
      <4>2. i \in 1 .. Len(page[w].inbox)
        BY <1>2, <1>3, <1>4
      <4> QED
        BY <1>2, <1>9, <3>2, <4>1, <4>2 DEF PageInv
    <3>3. ASSUME NEW r \in q.replies
          PROVE  /\ Requested(r.id, w)
                 /\ pc[r.id] = "answer" /\ r.by \in Bap => r.by \in since[r.id]
      <4>1. CASE r \in page[w].replies
        BY <1>2, <4>1 DEF PageInv
      <4>2. ASSUME NEW by \in ({page[w].bapId} \ {NoBap}) \cup {"error"}, m.type = "CWI",
                   r = [id |-> m.id, by |-> by]
            PROVE  /\ Requested(r.id, w)
                   /\ pc[r.id] = "answer" /\ r.by \in Bap => r.by \in since[r.id]
        <5>1. /\ Requested(m.id, w)
              /\ pc[m.id] = "answer" => ToldOf(since[m.id], page[w], 1)
          BY <1>2, <1>3, <4>2 DEF PageInv
        <5>2. ToldOf(since[m.id], page[w], 1) => page[w].bapId \in since[m.id] \cup {NoBap}
          BY DEF ToldOf, ToldFrom
        <5> QED
          BY <4>2, <5>1, <5>2, SignerAssumption
      <4> QED
        BY <1>4, <3>3, <4>1, <4>2
    <3> QED
      BY <1>1, <1>5, <2>2, <3>1, <3>2, <3>3 DEF PageInv, Requested
  <2> QED
    BY <2>1, <2>2
<1>11. ASSUME NEW c \in Call PROVE CallInv(c)'
  <2>1. CASE via[c] # w
    BY <1>1, <1>5, <2>1, CallFrame DEF SignerInv, InstanceTypes, SameFrame
  <2>2. CASE via[c] = w
    <3>1. CallInv(c)
      BY DEF SignerInv
    <3>2. /\ Len(q.inbox) + 1 = Len(page[w].inbox)
          /\ Len(page[w].inbox) \in 1 .. Len(page[w].inbox)
      BY <1>2, <1>3, <1>4
    <3>3. ToldOf(since[c], page[w], Len(page[w].inbox) + 1)
             => ToldOf(since[c], q, Len(q.inbox) + 1)
      BY <1>9, <3>2
    <3> QED
      BY <1>1, <1>5, <2>2, <3>1, <3>3 DEF CallInv
  <2> QED
    BY <2>1, <2>2
<1> QED
  BY <1>6, <1>8, <1>10, <1>11 DEF SignerInv
\* The identity b is set on w: what the page is told, and the histories.
LEMMA SetIdentityStep ==
    ASSUME SignerInv, NEW w \in Signer, NEW b \in Bap, SetIdentity(w, b)
    PROVE  SignerInv'
<1>1. /\ cwi' = [cwi EXCEPT ![w] = [cwi[w] EXCEPT !.currentBapId = b]]
      /\ page' = [page EXCEPT ![w] = TellIdentity(page[w], cwi[w], b)]
      /\ latest' = [latest EXCEPT ![w] = b]
      /\ since' = [c \in Call |->
            IF via[c] = w /\ pc[c] \in {"send", "answer"} THEN since[c] \cup {b}
            ELSE since[c]]
      /\ UNCHANGED <<pc, via, handshake, answer>>
  BY DEF SetIdentity, WithIdentity, NoteIdentity, callVars
<1>2. cwi[w] \in Fields /\ page[w] \in Page /\ InstanceTypes
  BY DEF SignerInv, InstanceTypes
<1>3. /\ \A v \in Signer : /\ SameFrame(v)
                           /\ cwi'[v].pending = cwi[v].pending
                           /\ cwi'[v].waiter = cwi[v].waiter
                           /\ v # w => cwi'[v] = cwi[v] /\ page'[v] = page[v]
                           /\ v # w => latest'[v] = latest[v]
      /\ cwi'[w].currentBapId = b /\ latest'[w] = b
      /\ cwi'[w] \in Fields
  BY <1>1, <1>2 DEF InstanceTypes, Fields, SameFrame
<1>4. Tells(cwi[w], page[w], page'[w], b)
  <2>1. page'[w] = TellIdentity(page[w], cwi[w], b)
    BY <1>1, <1>2 DEF InstanceTypes
  <2> QED
    BY <1>2, <2>1, TellsNothing, TellsOnce DEF TellIdentity
<1>5. InstanceTypes'
  <2>1. page'[w] \in Page
    BY <1>4 DEF Tells
  <2>2. since' \in [Call -> SUBSET Bap]
    BY <1>1, <1>2 DEF InstanceTypes
  <2> QED
    BY <1>1, <1>2, <1>3, <2>1, <2>2 DEF InstanceTypes
<1>6. \A c \in Call : since[c] \subseteq since'[c] /\ MovesOn(c)
  BY <1>1 DEF MovesOn
<1>7. ASSUME NEW v \in Signer PROVE FieldsInv(v)' /\ PageInv(v)'
  <2>1. FieldsInv(v)'
    BY <1>1, <1>3 DEF SignerInv, FieldsInv
  <2>2. CASE v # w
    BY <1>3, <1>6, <2>1, <2>2, PageFrame
  <2>3. CASE v = w
    BY <1>3, <1>4, <1>6, <2>1, <2>3, PageTold
  <2> QED
    BY <2>2, <2>3
<1>8. ASSUME NEW c \in Call PROVE CallInv(c)'
  <2>1. via[c] \in Signer /\ SameFrame(via[c]) /\ UNCHANGED <<pc, via, answer>>
    BY <1>1, <1>2, <1>3 DEF InstanceTypes
  <2>2. CASE via[c] # w
    BY <1>1, <1>3, <2>1, <2>2, CallFrame
  <2>3. CASE via[c] = w
    <3>1. pc[c] \in {"send", "answer"} => b \in since'[c] /\ latest'[via[c]] \in since'[c]
      BY <1>1, <1>3, <2>3
    <3> QED
      BY <1>4, <1>6, <2>1, <2>3, <3>1, CallTold
  <2> QED
    BY <2>2, <2>3
<1> QED
  BY <1>5, <1>7, <1>8 DEF SignerInv

\* The continuations and timers of a handshake change nothing else than promises.
LEMMA PromiseStep ==
    ASSUME SignerInv, NEW w \in Signer,
           cwi' \in [Signer -> Fields],
           \A v \in Signer : /\ SameFrame(v)
                             /\ cwi'[v].currentBapId = cwi[v].currentBapId
                             /\ cwi'[v].pending = cwi[v].pending
                             /\ v # w => cwi'[v].waiter = cwi[v].waiter,
           cwi'[w].waiter = NoCall,
           handshake' \in [Call -> {"open", "resolved", "rejected"}],
           \A d \in Call : d # cwi[w].waiter => handshake'[d] = handshake[d],
           UNCHANGED <<page, pc, via, answer, latest, since>>
    PROVE  SignerInv'
<1>1. \A c \in Call : MovesOn(c)
  BY DEF MovesOn
<1>2. InstanceTypes'
  BY DEF SignerInv, InstanceTypes
<1>3. ASSUME NEW v \in Signer PROVE FieldsInv(v)' /\ PageInv(v)'
  <2>1. FieldsInv(w) /\ FieldsInv(v)
    BY DEF SignerInv
  <2>2. \A c \in Call : cwi'[v].waiter = c => cwi[v].waiter = c /\ c # cwi[w].waiter
    BY <2>1, SignerAssumption DEF FieldsInv
  <2>3. FieldsInv(v)'
    BY <2>1, <2>2 DEF FieldsInv
  <2> QED
    BY <1>1, <2>3, PageFrame
<1>4. \A c \in Call : CallInv(c)'
  BY CallFrame DEF SignerInv, InstanceTypes
<1> QED
  BY <1>2, <1>3, <1>4 DEF SignerInv

LEMMA HandshakeTimeoutStep ==
    ASSUME SignerInv, NEW w \in Signer, NEW c \in Call, HandshakeTimeout(w, c)
    PROVE  SignerInv'
<1>1. /\ cwi' = [cwi EXCEPT ![w].timers = @ \ {c}, ![w].waiter = NoCall]
      /\ handshake' = [d \in Call |->
            IF d = cwi[w].waiter THEN "rejected" ELSE handshake[d]]
      /\ UNCHANGED <<page, pc, via, answer, latest, since>>
  BY DEF HandshakeTimeout
<1>2. cwi \in [Signer -> Fields] /\ handshake \in [Call -> {"open", "resolved", "rejected"}]
  BY DEF SignerInv, InstanceTypes
<1>3. cwi'[w] \in Fields
  BY <1>1, <1>2 DEF Fields
<1>4. /\ cwi' \in [Signer -> Fields]
      /\ \A v \in Signer : /\ SameFrame(v)
                           /\ cwi'[v].currentBapId = cwi[v].currentBapId
                           /\ cwi'[v].pending = cwi[v].pending
                           /\ v # w => cwi'[v].waiter = cwi[v].waiter
      /\ cwi'[w].waiter = NoCall
  BY <1>1, <1>2, <1>3 DEF Fields, SameFrame
<1>5. /\ handshake' \in [Call -> {"open", "resolved", "rejected"}]
      /\ \A d \in Call : d # cwi[w].waiter => handshake'[d] = handshake[d]
  BY <1>1, <1>2
<1> QED
  BY <1>1, <1>4, <1>5, PromiseStep
----------------------------------------------------------------------------
(* Settling requests                                                       *)

\* Some pending requests of w are settled, and taken out of its map.
LEMMA SettleStep ==
    ASSUME SignerInv, NEW w \in Signer, NEW C \in SUBSET cwi[w].pending,
           NEW r \in Bap \cup {"error"}, r \in Bap => \A c \in C : r \in since[c],
           Settled(C, r),
           \A v \in Signer : v # w => cwi'[v] = cwi[v],
           cwi'[w].pending = cwi[w].pending \ C,
           via' = via, since' = since
    PROVE  /\ pc' \in [Call -> Underway \cup {"idle", "settled"}]
           /\ answer' \in [Call -> Bap \cup {NoBap, "error"}]
           /\ \A v \in Signer : cwi'[v].pending = {c \in Call : pc'[c] = "answer" /\ via'[c] = v}
           /\ \A c \in Call : MovesOn(c)
<1>1. InstanceTypes /\ FieldsInv(w) /\ \A v \in Signer : FieldsInv(v)
  BY DEF SignerInv
<1>2. \A c \in C : c \in Call /\ pc[c] = "answer" /\ via[c] = w
  BY <1>1 DEF FieldsInv
<1>3. /\ \A c \in C : pc'[c] = "settled" /\ answer'[c] = r
      /\ \A c \in Call \ C : pc'[c] = pc[c] /\ answer'[c] = answer[c]
  BY <1>2 DEF Settled
<1>4. /\ pc' \in [Call -> Underway \cup {"idle", "settled"}]
      /\ answer' \in [Call -> Bap \cup {NoBap, "error"}]
  BY <1>1 DEF Settled, InstanceTypes
<1>5. \A c \in Call : MovesOn(c)
  BY <1>2, <1>3 DEF MovesOn
<1>6. ASSUME NEW v \in Signer
      PROVE  cwi'[v].pending = {c \in Call : pc'[c] = "answer" /\ via'[c] = v}
  <2>1. cwi[v].pending = {c \in Call : pc[c] = "answer" /\ via[c] = v}
    BY <1>1 DEF FieldsInv
  <2>2. CASE v = w
    BY <1>2, <1>3, <2>1, <2>2
  <2>3. CASE v # w
    BY <1>2, <1>3, <2>1, <2>3
  <2> QED
    BY <2>2, <2>3
<1> QED
  BY <1>2, <1>3, <1>4, <1>5, <1>6

\* The rest of the invariant, where the frame stays.
LEMMA SettledStep ==
    ASSUME SignerInv, NEW w \in Signer, NEW C \in SUBSET cwi[w].pending,
           NEW r \in Bap \cup {"error"}, r \in Bap => \A c \in C : r \in since[c],
           Settled(C, r),
           cwi' \in [Signer -> Fields],
           \A v \in Signer : SameFrame(v),
           \A v \in Signer : v # w => cwi'[v] = cwi[v],
           \A v \in Signer : \A c \in Call : cwi'[v].waiter = c =>
               cwi[v].waiter = c /\ handshake'[c] = handshake[c],
           cwi'[w].currentBapId = cwi[w].currentBapId,
           cwi'[w].pending = cwi[w].pending \ C,
           page' \in [Signer -> Page],
           \A v \in Signer : v # w => page'[v] = page[v],
           page'[w].inbox = page[w].inbox, page'[w].bapId = page[w].bapId,
           page'[w].appended = page[w].appended, page'[w].loaded = page[w].loaded,
           page'[w].replies \subseteq page[w].replies,
           handshake' \in [Call -> {"open", "resolved", "rejected"}],
           via' = via, latest' = latest, since' = since
    PROVE  SignerInv'
<1>1. /\ pc' \in [Call -> Underway \cup {"idle", "settled"}]
      /\ answer' \in [Call -> Bap \cup {NoBap, "error"}]
      /\ \A v \in Signer : cwi'[v].pending = {c \in Call : pc'[c] = "answer" /\ via'[c] = v}
      /\ \A c \in Call : MovesOn(c)
  BY SettleStep
<1>2. /\ \A c \in Call : c \in C =>
            pc[c] = "answer" /\ via[c] = w /\ pc'[c] = "settled" /\ answer'[c] = r
      /\ \A c \in Call : c \notin C => pc'[c] = pc[c] /\ answer'[c] = answer[c]
  BY DEF SignerInv, FieldsInv, Settled
<1>3. InstanceTypes'
  BY <1>1 DEF SignerInv, InstanceTypes
<1>4. \A S : \A n \in Nat : ToldOf(S, page[w], n) => ToldOf(S, page'[w], n)
  BY ToldPrefix
<1>5. ASSUME NEW v \in Signer PROVE FieldsInv(v)' /\ PageInv(v)'
  <2>1. FieldsInv(v)'
    <3>1. FieldsInv(v)
      BY DEF SignerInv
    <3>2. \A c \in Call : cwi'[v].waiter = c => pc'[c] = pc[c]
      BY <1>2, <3>1 DEF FieldsInv
    <3> QED
      BY <1>1, <3>1, <3>2 DEF FieldsInv
  <2>2. CASE v # w
    BY <1>1, <2>1, <2>2, PageFrame
  <2>3. CASE v = w
    <3>1. PageInv(w) /\ page[w] \in Page
      BY DEF SignerInv, InstanceTypes
    <3>2. ASSUME NEW i \in 1 .. Len(page[w].inbox), page[w].inbox[i].type = "CWI"
          PROVE  /\ Requested(page[w].inbox[i].id, w)'
                 /\ pc'[page[w].inbox[i].id] = "answer" =>
                       ToldOf(since[page[w].inbox[i].id], page'[w], i)
      <4>1. PICK c \in Call : c = page[w].inbox[i].id
        BY <3>1, <3>2, MessageType DEF Page
      <4>2. /\ Requested(c, w)
            /\ pc[c] = "answer" => ToldOf(since[c], page[w], i)
        BY <3>1, <3>2, <4>1 DEF PageInv
      <4>3. pc'[c] \in {pc[c], "settled"} /\ via'[c] = w
        BY <1>1, <4>2 DEF MovesOn, Requested
      <4> QED
        BY <1>4, <4>1, <4>2, <4>3 DEF Requested
    <3>3. ASSUME NEW x \in page'[w].replies
          PROVE  /\ Requested(x.id, w)'
                 /\ pc'[x.id] = "answer" /\ x.by \in Bap => x.by \in since[x.id]
      <4>1. x \in page[w].replies /\ x.id \in Call
        BY <3>1 DEF Page, Reply
      <4>2. Requested(x.id, w) /\ (pc[x.id] = "answer" /\ x.by \in Bap => x.by \in since[x.id])
        BY <3>1, <4>1 DEF PageInv
      <4> QED
        BY <1>1, <4>1, <4>2 DEF MovesOn, Requested
    <3> QED
      BY <2>1, <2>3, <3>1, <3>2, <3>3 DEF PageInv, SameFrame, Requested
  <2> QED
    BY <2>2, <2>3
<1>6. ASSUME NEW c \in Call PROVE CallInv(c)'
  <2>1. CASE c \in C
    BY <1>2, <1>1, <2>1, SignerAssumption DEF CallInv
  <2>2. CASE c \notin C
    <3>1. CallInv(c) /\ via[c] \in Signer /\ pc'[c] = pc[c] /\ answer'[c] = answer[c]
      BY <1>2, <2>2 DEF SignerInv, InstanceTypes
    <3>2. CASE via[c] # w
      BY <3>1, <3>2, CallFrame
    <3>3. CASE via[c] = w
      <4>1. Len(page[w].inbox) + 1 \in Nat
        BY DEF SignerInv, InstanceTypes, Page
      <4>2. ToldOf(since[c], page[w], Len(page[w].inbox) + 1)
               => ToldOf(since[c], page'[w], Len(page'[w].inbox) + 1)
        BY <1>4, <4>1
      <4> QED
        BY <3>1, <3>3, <4>2 DEF CallInv, SameFrame
    <3> QED
      BY <3>2, <3>3
  <2> QED
    BY <2>1, <2>2
<1> QED
  BY <1>3, <1>5, <1>6 DEF SignerInv

LEMMA StateMessageStep ==
    ASSUME SignerInv, NEW w \in Signer, NEW status \in Status, StateMessage(w, status)
    PROVE  SignerInv'
<1> DEFINE C == IF status = "error" THEN cwi[w].pending ELSE {}
<1>1. /\ cwi' = [cwi EXCEPT ![w].handshakeComplete = TRUE, ![w].waiter = NoCall,
                            ![w].timers = {}, ![w].pending = @ \ C]
      /\ Settled(C, "error")
      /\ handshake' = [d \in Call |->
            IF d = cwi[w].waiter THEN "resolved" ELSE handshake[d]]
      /\ UNCHANGED <<page, via, latest, since>>
  BY DEF StateMessage
<1>2. /\ cwi \in [Signer -> Fields] /\ handshake \in [Call -> {"open", "resolved", "rejected"}]
      /\ page \in [Signer -> Page] /\ \A v \in Signer : FieldsInv(v)
  BY DEF SignerInv, InstanceTypes
<1>3. /\ cwi'[w] \in Fields /\ cwi'[w].waiter = NoCall /\ SameFrame(w)
      /\ cwi'[w].currentBapId = cwi[w].currentBapId
      /\ cwi'[w].pending = cwi[w].pending \ C
      /\ \A v \in Signer : v # w => cwi'[v] = cwi[v]
  <2>1. cwi[w] \in Fields /\ cwi[w].pending \in SUBSET Call
    BY <1>2 DEF Fields
  <2> DEFINE D == cwi[w].pending \ C
  <2>2. D \in SUBSET Call
    BY <2>1
  <2>3. cwi' = [cwi EXCEPT ![w] = [cwi[w] EXCEPT
                  !.handshakeComplete = TRUE, !.waiter = NoCall, !.timers = {}, !.pending = D]]
    BY <1>1, <1>2
  <2> HIDE DEF D
  <2>4. /\ cwi'[w] = [cwi[w] EXCEPT
               !.handshakeComplete = TRUE, !.waiter = NoCall, !.timers = {}, !.pending = D]
        /\ \A v \in Signer : v # w => cwi'[v] = cwi[v]
    BY <1>2, <2>3
  <2>5. /\ cwi'[w] \in Fields /\ cwi'[w].waiter = NoCall /\ SameFrame(w)
        /\ cwi'[w].currentBapId = cwi[w].currentBapId /\ cwi'[w].pending = D
    BY <2>1, <2>2, <2>4 DEF Fields, SameFrame
  <2> QED
    BY <2>4, <2>5 DEF D
<1>4. cwi' \in [Signer -> Fields]
  BY <1>1, <1>2, <1>3
<1>5. \A v \in Signer : SameFrame(v)
  BY <1>3 DEF SameFrame
<1>6. ASSUME NEW v \in Signer, NEW c \in Call, cwi'[v].waiter = c
      PROVE  cwi[v].waiter = c /\ handshake'[c] = handshake[c]
  <2>1. v # w /\ cwi[v].waiter = c
    BY <1>3, <1>6, SignerAssumption
  <2>2. c # cwi[w].waiter
    BY <1>2, <2>1 DEF FieldsInv
  <2> QED
    BY <1>1, <2>1, <2>2
<1>7. handshake' \in [Call -> {"open", "resolved", "rejected"}]
  BY <1>1, <1>2
<1>8. C \in SUBSET cwi[w].pending
  OBVIOUS
<1>9. page' = page /\ "error" \notin Bap
  BY <1>1, SignerAssumption
<1> HIDE DEF C
<1> QED
  BY <1>1, <1>2, <1>3, <1>4, <1>5, <1>6, <1>7, <1>8, <1>9, SettledStep

LEMMA RequestTimeoutStep ==
    ASSUME SignerInv, NEW c \in Call, RequestTimeout(c)
    PROVE  SignerInv'
<1> DEFINE w == via[c]
<1>1. /\ cwi' = [cwi EXCEPT ![w].pending = @ \ {c}]
      /\ Settled({c}, "error")
      /\ UNCHANGED <<page, via, handshake, latest, since>>
      /\ {c} \in SUBSET cwi[w].pending
  BY DEF RequestTimeout, Fail
<1>2. /\ cwi \in [Signer -> Fields] /\ handshake \in [Call -> {"open", "resolved", "rejected"}]
      /\ page \in [Signer -> Page] /\ w \in Signer
  BY DEF SignerInv, InstanceTypes
<1>3. cwi'[w] \in Fields /\ cwi'[w].pending = cwi[w].pending \ {c}
  BY <1>1, <1>2 DEF Fields
<1>4. cwi' \in [Signer -> Fields]
  BY <1>1, <1>2, <1>3
<1>5. /\ \A v \in Signer : SameFrame(v)
      /\ \A v \in Signer : v # w => cwi'[v] = cwi[v]
      /\ \A v \in Signer : cwi'[v].waiter = cwi[v].waiter
      /\ cwi'[w].currentBapId = cwi[w].currentBapId
  BY <1>1, <1>2 DEF Fields, SameFrame
<1>6. "error" \notin Bap
  BY SignerAssumption
<1> HIDE DEF w
<1> QED
  BY <1>1, <1>2, <1>3, <1>4, <1>5, <1>6, SettledStep

LEMMA AnswerStep ==
    ASSUME SignerInv, NEW w \in Signer, NEW r \in page[w].replies, Answer(w, r)
    PROVE  SignerInv'
<1>1. /\ page' = [page EXCEPT ![w].replies = @ \ {r}]
      /\ UNCHANGED <<via, handshake, latest, since>>
  BY DEF Answer
<1>2. /\ cwi \in [Signer -> Fields] /\ handshake \in [Call -> {"open", "resolved", "rejected"}]
      /\ page \in [Signer -> Page] /\ page[w] \in Page /\ FieldsInv(w) /\ PageInv(w)
      /\ r.id \in Call /\ r.by \in Bap \cup {"error"}
  BY DEF SignerInv, InstanceTypes, Page, Reply
<1>3. /\ page'[w] = [page[w] EXCEPT !.replies = @ \ {r}]
      /\ \A v \in Signer : v # w => page'[v] = page[v]
  BY <1>1, <1>2
<1>4. /\ page'[w].inbox = page[w].inbox /\ page'[w].bapId = page[w].bapId
      /\ page'[w].appended = page[w].appended /\ page'[w].loaded = page[w].loaded
      /\ page'[w].replies \subseteq page[w].replies
      /\ page'[w] \in Page
  BY <1>2, <1>3 DEF Page
<1>5. page' \in [Signer -> Page]
  BY <1>1, <1>2, <1>4
<1>6. CASE r.id \in cwi[w].pending /\ cwi' = [cwi EXCEPT ![w].pending = @ \ {r.id}]
           /\ Settled({r.id}, r.by)
  <2> DEFINE C == {r.id}
             by == r.by
  <2>1. cwi'[w] \in Fields /\ cwi'[w].pending = cwi[w].pending \ C
    BY <1>2, <1>6 DEF Fields
  <2>2. cwi' \in [Signer -> Fields]
    BY <1>2, <1>6, <2>1
  <2>3. /\ \A v \in Signer : SameFrame(v)
        /\ \A v \in Signer : v # w => cwi'[v] = cwi[v]
        /\ \A v \in Signer : \A c \in Call : cwi'[v].waiter = c =>
              cwi[v].waiter = c /\ handshake'[c] = handshake[c]
        /\ cwi'[w].currentBapId = cwi[w].currentBapId
    BY <1>1, <1>2, <1>6 DEF Fields, SameFrame
  <2>4. by \in Bap => \A c \in C : by \in since[c]
    BY <1>2, <1>6 DEF FieldsInv, PageInv
  <2>5. C \in SUBSET cwi[w].pending /\ by \in Bap \cup {"error"} /\ Settled(C, by)
    BY <1>2, <1>6
  <2>6. /\ handshake' \in [Call -> {"open", "resolved", "rejected"}]
        /\ via' = via /\ latest' = latest /\ since' = since
    BY <1>1, <1>2
  <2> HIDE DEF C, by
  <2> QED
    BY <1>3, <1>4, <1>5, <2>1, <2>2, <2>3, <2>4, <2>5, <2>6, SettledStep
<1>7. CASE UNCHANGED <<cwi, pc, answer>>
  <2>1. Settled({}, "error")
    BY <1>7 DEF Settled, SignerInv, InstanceTypes
  <2>2. {} \in SUBSET cwi[w].pending /\ cwi'[w].pending = cwi[w].pending \ {}
        /\ "error" \notin Bap
    BY <1>7, SignerAssumption
  <2>3. /\ \A v \in Signer : SameFrame(v)
        /\ \A v \in Signer : v # w => cwi'[v] = cwi[v]
        /\ \A v \in Signer : cwi'[v].waiter = cwi[v].waiter
        /\ cwi'[w].currentBapId = cwi[w].currentBapId
    BY <1>7 DEF SameFrame
  <2> QED
    BY <1>1, <1>2, <1>3, <1>4, <1>5, <1>7, <2>1, <2>2, <2>3, SettledStep
<1> QED
  BY <1>6, <1>7 DEF Answer

LEMMA DestroyStep ==
    ASSUME SignerInv, NEW w \in Signer, Destroy(w)
    PROVE  SignerInv'
<1> DEFINE C == cwi[w].pending
<1>1. /\ cwi' = [cwi EXCEPT ![w] = [cwi[w] EXCEPT
               !.destroyed = TRUE, !.iframe = 0, !.initialized = FALSE, !.pending = {}]]
      /\ page' = [page EXCEPT ![w] = [page[w] EXCEPT
               !.loaded = @ \ {cwi[w].iframe}, !.inbox = <<>>]]
      /\ Settled(C, "error")
      /\ via' = via /\ handshake' = handshake /\ latest' = latest /\ since' = since
  BY DEF Destroy
<1>2. /\ InstanceTypes /\ cwi[w] \in Fields /\ page[w] \in Page
      /\ \A v \in Signer : FieldsInv(v) /\ PageInv(v)
      /\ \A c \in Call : CallInv(c)
  BY DEF SignerInv, InstanceTypes
<1>3. /\ cwi'[w] \in Fields /\ cwi'[w].destroyed /\ cwi'[w].iframe = 0
      /\ cwi'[w].pending = {} /\ cwi'[w].waiter = cwi[w].waiter
      /\ cwi'[w].currentBapId = cwi[w].currentBapId
      /\ page'[w] \in Page /\ page'[w].inbox = <<>> /\ page'[w].replies = page[w].replies
      /\ page'[w].appended = page[w].appended /\ page'[w].loaded \subseteq page[w].loaded
      /\ \A v \in Signer : v # w => cwi'[v] = cwi[v] /\ page'[v] = page[v]
  <2>1. /\ cwi'[w] = [cwi[w] EXCEPT
               !.destroyed = TRUE, !.iframe = 0, !.initialized = FALSE, !.pending = {}]
        /\ page'[w] = [page[w] EXCEPT !.loaded = @ \ {cwi[w].iframe}, !.inbox = <<>>]
        /\ \A v \in Signer : v # w => cwi'[v] = cwi[v] /\ page'[v] = page[v]
    BY <1>1, <1>2 DEF InstanceTypes
  <2>2. /\ cwi'[w] \in Fields /\ cwi'[w].destroyed /\ cwi'[w].iframe = 0
        /\ cwi'[w].pending = {} /\ cwi'[w].waiter = cwi[w].waiter
        /\ cwi'[w].currentBapId = cwi[w].currentBapId
    <3>1. cwi[w] \in Fields /\ 0 \in Nat
      BY <1>2
    <3>2. /\ cwi'[w].destroyed = TRUE /\ cwi'[w].iframe = 0
          /\ cwi'[w].pending = {} /\ cwi'[w].waiter = cwi[w].waiter
          /\ cwi'[w].currentBapId = cwi[w].currentBapId
      BY <2>1, <3>1 DEF Fields
    <3>3. cwi'[w] \in Fields
      BY <2>1, <3>1 DEF Fields
    <3> QED
      BY <3>2, <3>3
  <2>3. page[w].loaded \ {cwi[w].iframe} \in SUBSET Nat /\ <<>> \in Seq(Message)
    BY <1>2 DEF Page
  <2>4. /\ page'[w] \in Page /\ page'[w].inbox = <<>> /\ page'[w].replies = page[w].replies
        /\ page'[w].appended = page[w].appended /\ page'[w].loaded \subseteq page[w].loaded
    BY <1>2, <2>1, <2>3 DEF Page
  <2> QED
    BY <2>1, <2>2, <2>4
<1>4. /\ pc' \in [Call -> Underway \cup {"idle", "settled"}]
      /\ answer' \in [Call -> Bap \cup {NoBap, "error"}]
      /\ \A v \in Signer : cwi'[v].pending = {c \in Call : pc'[c] = "answer" /\ via'[c] = v}
      /\ \A c \in Call : MovesOn(c)
  <2>1. /\ C \in SUBSET cwi[w].pending /\ cwi'[w].pending = cwi[w].pending \ C
        /\ "error" \notin Bap /\ "error" \in Bap \cup {"error"}
        /\ \A v \in Signer : v # w => cwi'[v] = cwi[v]
    BY <1>3, SignerAssumption
  <2>2. Settled(C, "error") /\ via' = via /\ since' = since
    BY <1>1
  <2> HIDE DEF C
  <2> QED
    BY <2>1, <2>2, SettleStep
<1>5. /\ \A c \in Call : c \in C =>
            pc[c] = "answer" /\ via[c] = w /\ pc'[c] = "settled" /\ answer'[c] = "error"
      /\ \A c \in Call : c \notin C => pc'[c] = pc[c] /\ answer'[c] = answer[c]
      /\ \A c \in Call : pc[c] = "answer" /\ via[c] = w => c \in C
  BY <1>1, <1>2 DEF FieldsInv, Settled
<1>6. InstanceTypes'
  <2>1. cwi' \in [Signer -> Fields] /\ page' \in [Signer -> Page]
    BY <1>1, <1>2, <1>3 DEF InstanceTypes
  <2> QED
    BY <1>1, <1>2, <1>4, <2>1 DEF InstanceTypes
<1>7. ASSUME NEW v \in Signer PROVE FieldsInv(v)' /\ PageInv(v)'
  <2>1. FieldsInv(v)'
    <3>1. cwi'[v].waiter = cwi[v].waiter /\ cwi'[v].currentBapId = cwi[v].currentBapId
      BY <1>3
    <3>2. \A c \in Call : cwi'[v].waiter = c => pc'[c] = pc[c]
      <4>1. \A c \in Call : cwi[v].waiter = c => pc[c] # "answer"
        BY <1>2 DEF FieldsInv
      <4> QED
        BY <1>5, <3>1, <4>1
    <3> QED
      BY <1>1, <1>2, <1>4, <3>1, <3>2 DEF FieldsInv
  <2>2. CASE v # w
    BY <1>3, <1>4, <2>1, <2>2, PageFrame DEF SameFrame
  <2>3. CASE v = w
    <3>1. ASSUME NEW x \in page[w].replies
          PROVE  /\ Requested(x.id, w)'
                 /\ pc'[x.id] = "answer" /\ x.by \in Bap => x.by \in since[x.id]
      <4>1. x.id \in Call
        BY <1>2 DEF Page, Reply
      <4>2. Requested(x.id, w) /\ (pc[x.id] = "answer" /\ x.by \in Bap => x.by \in since[x.id])
        BY <1>2 DEF PageInv
      <4> QED
        BY <1>4, <4>1, <4>2 DEF MovesOn, Requested
    <3>2. page'[w].loaded \subseteq 1 .. page'[w].appended /\ cwi'[w].iframe \in 0 .. page'[w].appended
      BY <1>2, <1>3 DEF PageInv, Page
    <3>3. Len(page'[w].inbox) = 0
      BY <1>3
    <3> QED
      BY <1>1, <1>3, <2>1, <2>3, <3>1, <3>2, <3>3 DEF PageInv
  <2> QED
    BY <2>2, <2>3
<1>8. ASSUME NEW c \in Call PROVE CallInv(c)'
  <2>1. CASE c \in C
    BY <1>5, <2>1, SignerAssumption DEF CallInv
  <2>2. CASE c \notin C
    <3>1. CallInv(c) /\ via[c] \in Signer /\ pc'[c] = pc[c] /\ answer'[c] = answer[c]
      BY <1>2, <1>5, <2>2 DEF InstanceTypes
    <3>2. CASE via[c] # w
      BY <1>1, <1>3, <3>1, <3>2, CallFrame DEF SameFrame
    <3>3. CASE via[c] = w
      BY <1>1, <1>3, <1>5, <2>2, <3>1, <3>3 DEF CallInv
    <3> QED
      BY <3>2, <3>3
  <2> QED
    BY <2>1, <2>2
<1> QED
  BY <1>6, <1>7, <1>8 DEF SignerInv

----------------------------------------------------------------------------
(* Steps of one call                                                       *)

\* The call c goes on from where it awaited neither a request nor a promise that is
\* open, to where it does not post: instances change in what is not promised by them.
LEMMA QuietStep ==
    ASSUME SignerInv, NEW c \in Call, NEW p \in Underway \cup {"settled"},
           NEW r \in {NoBap, "error"},
           pc[c] \notin {"answer", "settled"}, p \notin {"send", "answer"},
           pc[c] \in {"locate", "handshake"} => handshake[c] # "open",
           p # "settled" => r = NoBap,
           pc' = [pc EXCEPT ![c] = p], answer' = [answer EXCEPT ![c] = r],
           cwi' \in [Signer -> Fields],
           \A w \in Signer : SameFrame(w),
           \A w \in Signer : cwi'[w].currentBapId = cwi[w].currentBapId,
           \A w \in Signer : cwi'[w].pending = cwi[w].pending,
           \A w \in Signer : cwi'[w].waiter = cwi[w].waiter,
           page' = page, via' = via, handshake' = handshake,
           latest' = latest, since' = since
    PROVE  SignerInv'
<1>1. /\ InstanceTypes
      /\ \A w \in Signer : FieldsInv(w) /\ PageInv(w)
      /\ \A d \in Call : CallInv(d)
  BY DEF SignerInv
<1>2. /\ pc'[c] = p /\ answer'[c] = r
      /\ \A d \in Call : d # c => pc'[d] = pc[d] /\ answer'[d] = answer[d]
  BY <1>1 DEF InstanceTypes
<1>3. InstanceTypes'
  BY <1>1 DEF InstanceTypes
<1>4. \A d \in Call : MovesOn(d)
  BY <1>2 DEF MovesOn
<1>5. ASSUME NEW w \in Signer PROVE FieldsInv(w)' /\ PageInv(w)'
  <2>1. FieldsInv(w)
    BY <1>1
  <2>2. \A d \in Call : pc'[d] = "answer" <=> pc[d] = "answer"
    BY <1>2
  <2>3. \A d \in Call : cwi[w].waiter = d => d # c
    BY <2>1 DEF FieldsInv
  <2>4. FieldsInv(w)'
    BY <1>2, <2>1, <2>2, <2>3 DEF FieldsInv
  <2> QED
    BY <1>4, <2>4, PageFrame
<1>6. ASSUME NEW d \in Call PROVE CallInv(d)'
  <2>1. CASE d = c
    BY <1>2, <2>1, SignerAssumption DEF CallInv
  <2>2. CASE d # c
    BY <1>1, <1>2, <2>2, CallFrame DEF InstanceTypes
  <2> QED
    BY <2>1, <2>2
<1> QED
  BY <1>3, <1>5, <1>6 DEF SignerInv
\* The call c is not waiting for what others settle, and has not posted.
Ready(c) ==
    /\ pc[c] \notin {"send", "answer", "settled"}
    /\ pc[c] \in {"locate", "handshake"} => handshake[c] # "open"

\* Whatever identity was set on w while the call c went on there, its calls were told.
Notes(c, w) ==
    /\ latest' \in [Signer -> Bap \cup {NoBap}]
    /\ since' \in [Call -> SUBSET Bap]
    /\ \A v \in Signer : v # w => latest'[v] = latest[v]
    /\ \A d \in Call : d # c /\ via[d] # w => since'[d] = since[d]
    /\ \A d \in Call : d # c /\ via[d] = w =>
          /\ since[d] \subseteq since'[d]
          /\ pc[d] \in {"send", "answer"} => latest'[w] \in since'[d]

\* The fields s are those of w, with the identity set on it last.
Given(w, s) ==
    /\ s \in Fields
    /\ s.iframe = cwi[w].iframe /\ s.destroyed = cwi[w].destroyed
    /\ s.pending = cwi[w].pending /\ s.waiter = cwi[w].waiter
    /\ s.currentBapId = latest'[w]

LEMMA TellStep ==
    ASSUME SignerInv, NEW c \in Call, NEW w \in Signer, Ready(c), Notes(c, w),
           NEW s, Given(w, s), NEW p, Tells(cwi[w], page[w], p, latest'[w]),
           latest'[w] # NoBap => latest'[w] \in since'[c],
           via' = [via EXCEPT ![c] = w], TellPage(c, w, s, p)
    PROVE  SignerInv'
<1> DEFINE b == latest'[w]
           m == [type |-> "SET_IDENTITY", bapId |-> b]
<1>1. /\ InstanceTypes /\ page[w] \in Page /\ p \in Page
      /\ \A v \in Signer : FieldsInv(v) /\ PageInv(v)
      /\ \A d \in Call : CallInv(d)
      /\ b \in Bap \cup {NoBap}
  BY DEF SignerInv, InstanceTypes, Tells, Notes
<1>2. cwi' = [cwi EXCEPT ![w] = s] /\ handshake' = handshake
  BY DEF TellPage
<1>3. /\ cwi' \in [Signer -> Fields] /\ cwi'[w] = s
      /\ \A v \in Signer : v # w => cwi'[v] = cwi[v]
      /\ \A v \in Signer : SameFrame(v)
  BY <1>1, <1>2 DEF Given, InstanceTypes, SameFrame
<1>4. /\ via'[c] = w /\ \A d \in Call : d # c => via'[d] = via[d]
      /\ via' \in [Call -> Signer]
  BY <1>1 DEF InstanceTypes
<1>5. PICK q : /\ page' = [page EXCEPT ![w] = q] /\ Tells(cwi[w], page[w], q, b)
               /\ \/ /\ b = NoBap /\ Settled({c}, "error")
                  \/ /\ b \in Bap /\ pc' = [pc EXCEPT ![c] = "send"] /\ answer' = answer
                     /\ cwi[w].iframe \in page[w].loaded => Len(q.inbox) > Len(page[w].inbox)
  <2>1. CASE s.currentBapId = NoBap /\ Settled({c}, "error") /\ page' = [page EXCEPT ![w] = p]
    BY <2>1 DEF Given
  <2>2. CASE /\ s.currentBapId # NoBap
             /\ pc' = [pc EXCEPT ![c] = "send"] /\ answer' = answer
             /\ page' = [page EXCEPT ![w] =
                   Posted(p, s, [type |-> "SET_IDENTITY", bapId |-> s.currentBapId])]
    <3> DEFINE q == Posted(p, s, m)
    <3>1. b \in Bap /\ page' = [page EXCEPT ![w] = q]
      BY <1>1, <2>2 DEF Given
    <3>2. Tells(s, p, q, b)
      BY <1>1, <3>1, TellsOnce
    <3>3. Tells(cwi[w], p, q, b)
      BY <3>2 DEF Tells, Given
    <3>4. Tells(cwi[w], page[w], q, b)
      BY <1>1, <3>3, TellsTwice
    <3>5. cwi[w].iframe \in page[w].loaded => Len(q.inbox) > Len(page[w].inbox)
      <4>1. ASSUME cwi[w].iframe \in page[w].loaded PROVE q = [p EXCEPT !.inbox = Append(@, m)]
        BY <4>1 DEF Tells, Given, Posted
      <4>2. p.inbox \in Seq(Message) /\ m \in Message
        BY <1>1, <3>1 DEF Page, Message
      <4>3. Len(Append(p.inbox, m)) = Len(p.inbox) + 1 /\ Len(p.inbox) \in Nat
        BY <4>2
      <4>4. Len(p.inbox) >= Len(page[w].inbox) /\ Len(page[w].inbox) \in Nat
        BY <1>1 DEF Tells, Page
      <4>5. ASSUME cwi[w].iframe \in page[w].loaded PROVE q.inbox = Append(p.inbox, m)
        BY <1>1, <4>1, <4>5 DEF Page
      <4> HIDE DEF q, m
      <4> QED
        BY <4>3, <4>4, <4>5
    <3> HIDE DEF q
    <3> QED
      BY <2>2, <3>1, <3>4, <3>5
  <2> QED
    BY <2>1, <2>2 DEF TellPage
<1> HIDE DEF b, m
<1>6. /\ page'[w] = q /\ q \in Page /\ page' \in [Signer -> Page]
      /\ \A v \in Signer : v # w => page'[v] = page[v]
  BY <1>1, <1>5 DEF InstanceTypes, Tells
<1>7. /\ pc' \in [Call -> Underway \cup {"idle", "settled"}]
      /\ answer' \in [Call -> Bap \cup {NoBap, "error"}]
      /\ \A d \in Call : d # c => pc'[d] = pc[d] /\ answer'[d] = answer[d]
      /\ \/ pc'[c] = "settled" /\ answer'[c] = "error"
         \/ pc'[c] = "send" /\ answer'[c] = NoBap
  <2>1. CASE Settled({c}, "error")
    BY <1>1, <2>1 DEF Settled, InstanceTypes
  <2>2. CASE pc' = [pc EXCEPT ![c] = "send"] /\ answer' = answer
    <3>1. answer[c] = NoBap
      BY <1>1 DEF CallInv, Ready
    <3>2. "send" \in Underway
      BY DEF Underway, Waiting
    <3> QED
      BY <1>1, <2>2, <3>1, <3>2 DEF InstanceTypes
  <2> QED
    BY <1>5, <2>1, <2>2
<1>8. InstanceTypes'
  BY <1>1, <1>2, <1>3, <1>4, <1>6, <1>7 DEF InstanceTypes, Notes
<1>9. \A d \in Call : MovesOn(d)
  <2> SUFFICES ASSUME NEW d \in Call, pc[d] \in {"answer", "settled"} PROVE MovesOn(d)
    BY DEF MovesOn
  <2>1. d # c
    BY DEF Ready
  <2> QED
    BY <1>4, <1>7, <2>1 DEF MovesOn, Notes
<1>10. ASSUME NEW v \in Signer PROVE FieldsInv(v)' /\ PageInv(v)'
  <2>1. /\ cwi'[v].pending = cwi[v].pending /\ cwi'[v].waiter = cwi[v].waiter
        /\ cwi'[v].currentBapId = latest'[v]
    BY <1>1, <1>3 DEF Given, Notes, FieldsInv
  <2>2. FieldsInv(v) /\ \A d \in Call : cwi[v].waiter = d => d # c
    BY <1>1 DEF FieldsInv, Ready
  <2>3. \A d \in Call : pc'[d] = "answer" /\ via'[d] = v <=> pc[d] = "answer" /\ via[d] = v
    BY <1>4, <1>7 DEF Ready
  <2>4. FieldsInv(v)'
    BY <1>2, <1>4, <1>7, <2>1, <2>2, <2>3 DEF FieldsInv
  <2>5. CASE v # w
    BY <1>3, <1>6, <1>9, <2>4, <2>5, PageFrame
  <2>6. CASE v = w
    BY <1>3, <1>5, <1>6, <1>9, <2>4, <2>6, PageTold
  <2> QED
    BY <2>5, <2>6
<1>11. ASSUME NEW d \in Call PROVE CallInv(d)'
  <2>1. CASE d # c /\ via[d] # w
    <3>1. /\ via[d] \in Signer /\ pc'[d] = pc[d] /\ answer'[d] = answer[d]
          /\ via'[d] = via[d] /\ since'[d] = since[d] /\ SameFrame(via[d])
          /\ latest'[via[d]] = latest[via[d]] /\ page'[via[d]] = page[via[d]]
      BY <1>1, <1>3, <1>4, <1>6, <1>7, <2>1 DEF Notes, InstanceTypes
    <3> QED
      BY <3>1, CallFrame
  <2>2. CASE d # c /\ via[d] = w
    <3>1. /\ pc'[d] = pc[d] /\ answer'[d] = answer[d] /\ via'[d] = via[d]
          /\ since[d] \subseteq since'[d] /\ SameFrame(via[d])
          /\ Tells(cwi[via[d]], page[via[d]], page'[via[d]], b)
          /\ pc[d] \in {"send", "answer"} => b \in since'[d] /\ latest'[via[d]] \in since'[d]
      BY <1>3, <1>4, <1>5, <1>6, <1>7, <2>2 DEF Notes, b
    <3> QED
      BY <3>1, CallTold
  <2>3. CASE d = c
    <3>1. CASE pc'[c] = "settled" /\ answer'[c] = "error"
      BY <2>3, <3>1, SignerAssumption DEF CallInv
    <3>2. CASE pc'[c] = "send" /\ answer'[c] = NoBap
      <4>1. b \in Bap /\ b \in since'[c]
            /\ (cwi[w].iframe \in page[w].loaded => Len(q.inbox) > Len(page[w].inbox))
        BY <1>1, <1>5, <3>2, SignerAssumption DEF Settled, b
      <4>2. ASSUME ~cwi[w].destroyed PROVE ToldOf(since'[c], q, Len(q.inbox) + 1)
        <5>1. CASE cwi[w].iframe \in page[w].loaded
          BY <1>1, <1>5, <4>1, <5>1, ToldLast
        <5>2. CASE cwi[w].iframe \notin page[w].loaded
          <6>1. q.inbox = <<>> /\ q.bapId = NoBap
            BY <1>1, <1>5, <4>2, <5>2 DEF Tells, PageInv
          <6>2. Len(q.inbox) = 0
            BY <6>1
          <6>3. ToldFrom(since'[c], q, 0, Len(q.inbox) + 1)
            BY <6>1, <6>2 DEF ToldFrom
          <6> QED
            BY <6>2, <6>3 DEF ToldOf
        <5> QED
          BY <5>1, <5>2
      <4>3. /\ cwi'[via'[c]].destroyed = cwi[w].destroyed
            /\ page'[via'[c]] = q /\ latest'[via'[c]] = b
        BY <1>3, <1>4, <1>6 DEF SameFrame, b
      <4> QED
        BY <2>3, <3>2, <4>1, <4>2, <4>3, SignerAssumption DEF CallInv
    <3> QED
      BY <1>7, <3>1, <3>2
  <2> QED
    BY <2>1, <2>2, <2>3
<1> QED
  BY <1>8, <1>10, <1>11 DEF SignerInv
\* The call c opens an iframe on w, and awaits its handshake.
LEMMA InitStep ==
    ASSUME SignerInv, NEW c \in Call, NEW w \in Signer, Ready(c), Notes(c, w),
           NEW s, Given(w, s), StartInit(c, w, s, page[w]),
           NEW x \in {"locate", "handshake"}, pc' = [pc EXCEPT ![c] = x],
           via' = [via EXCEPT ![c] = w], answer' = answer
    PROVE  SignerInv'
<1> DEFINE n == page[w].appended + 1
           q == [page[w] EXCEPT !.appended = n, !.inbox = <<>>, !.bapId = NoBap]
<1>1. /\ InstanceTypes /\ page[w] \in Page
      /\ \A v \in Signer : FieldsInv(v) /\ PageInv(v)
      /\ \A d \in Call : CallInv(d)
  BY DEF SignerInv, InstanceTypes
<1>2. page' = [page EXCEPT ![w] = q]
  BY DEF StartInit
<1>3. PICK t : /\ cwi' = [cwi EXCEPT ![w] = t] /\ t \in Fields
               /\ t.iframe = n /\ t.destroyed = cwi[w].destroyed
               /\ t.pending = cwi[w].pending /\ t.currentBapId = latest'[w]
               /\ \/ t.waiter = cwi[w].waiter /\ handshake' = [handshake EXCEPT ![c] = "resolved"]
                  \/ t.waiter = c /\ handshake' = [handshake EXCEPT ![c] = "open"]
  <2>1. n \in Nat /\ s \in Fields
    BY <1>1 DEF Page, Given
  <2> HIDE DEF n
  <2>2. CASE /\ cwi' = [cwi EXCEPT ![w] = [s EXCEPT !.iframe = n]]
             /\ handshake' = [handshake EXCEPT ![c] = "resolved"]
    <3> DEFINE t == [s EXCEPT !.iframe = n]
    <3>1. /\ t \in Fields /\ t.iframe = n /\ t.destroyed = s.destroyed /\ t.pending = s.pending
          /\ t.currentBapId = s.currentBapId /\ t.waiter = s.waiter
      BY <2>1 DEF Fields
    <3> HIDE DEF t
    <3> QED
      BY <2>2, <3>1 DEF Given, t
  <2>3. CASE /\ cwi' = [cwi EXCEPT ![w] = [[s EXCEPT !.iframe = n]
                                  EXCEPT !.waiter = c, !.timers = @ \cup {c}]]
             /\ handshake' = [handshake EXCEPT ![c] = "open"]
    <3> DEFINE t == [[s EXCEPT !.iframe = n] EXCEPT !.waiter = c, !.timers = @ \cup {c}]
    <3>0. s.timers \cup {c} \in SUBSET Call
      BY <2>1 DEF Fields
    <3>1. /\ t \in Fields /\ t.iframe = n /\ t.destroyed = s.destroyed /\ t.pending = s.pending
          /\ t.currentBapId = s.currentBapId /\ t.waiter = c
      BY <2>1, <3>0 DEF Fields
    <3> HIDE DEF t
    <3> QED
      BY <2>3, <3>1 DEF Given, t
  <2> QED
    BY <2>2, <2>3 DEF StartInit, n
<1>4. /\ q \in Page /\ q.appended = n /\ q.inbox = <<>> /\ q.bapId = NoBap
      /\ q.loaded = page[w].loaded /\ q.replies = page[w].replies
  <2>1. n \in Nat /\ <<>> \in Seq(Message)
    BY <1>1 DEF Page
  <2> HIDE DEF n
  <2> QED
    BY <1>1, <2>1 DEF Page
<1>5. n \in Nat /\ page[w].appended \in Nat /\ page[w].loaded \subseteq 1 .. page[w].appended
  BY <1>1 DEF Page, PageInv
<1> HIDE DEF q
<1>6. /\ cwi' \in [Signer -> Fields] /\ page' \in [Signer -> Page]
      /\ cwi'[w] = t /\ page'[w] = q
      /\ \A v \in Signer : v # w => cwi'[v] = cwi[v] /\ page'[v] = page[v] /\ SameFrame(v)
  BY <1>1, <1>2, <1>3, <1>4 DEF InstanceTypes, SameFrame
<1>7. /\ pc'[c] = x /\ via'[c] = w
      /\ \A d \in Call : d # c =>
            pc'[d] = pc[d] /\ via'[d] = via[d] /\ handshake'[d] = handshake[d]
      /\ t.waiter = c => handshake'[c] = "open" \/ cwi[w].waiter = c
  BY <1>1, <1>3 DEF InstanceTypes
<1>8. InstanceTypes'
  <2>1. x \in Underway
    BY DEF Underway, Locating, Waiting
  <2> QED
    BY <1>1, <1>3, <1>6, <2>1 DEF InstanceTypes, Notes
<1>9. \A d \in Call : MovesOn(d)
  <2> SUFFICES ASSUME NEW d \in Call, pc[d] \in {"answer", "settled"} PROVE MovesOn(d)
    BY DEF MovesOn
  <2>1. d # c
    BY DEF Ready
  <2> QED
    BY <1>7, <2>1 DEF MovesOn, Notes
<1>10. ASSUME NEW v \in Signer PROVE FieldsInv(v)' /\ PageInv(v)'
  <2>1. FieldsInv(v) /\ \A d \in Call : cwi[v].waiter = d => d # c
    BY <1>1 DEF FieldsInv, Ready
  <2>2. \A d \in Call : pc'[d] = "answer" /\ via'[d] = v <=> pc[d] = "answer" /\ via[d] = v
    BY <1>7 DEF Ready
  <2>3. cwi'[v].pending = cwi[v].pending /\ cwi'[v].currentBapId = latest'[v]
    BY <1>3, <1>6, <2>1 DEF Notes, FieldsInv
  <2>4. \A d \in Call : cwi'[v].waiter = d =>
           \/ d # c /\ cwi[v].waiter = d
           \/ d = c /\ v = w /\ handshake'[c] = "open"
    BY <1>3, <1>6, <1>7, <2>1
  <2>5. FieldsInv(v)'
    BY <1>7, <2>1, <2>2, <2>3, <2>4 DEF FieldsInv
  <2>6. CASE v # w
    BY <1>6, <1>9, <2>5, <2>6, PageFrame
  <2>7. CASE v = w
    <3>1. ASSUME NEW r \in page[w].replies
          PROVE  /\ Requested(r.id, w)'
                 /\ pc'[r.id] = "answer" /\ r.by \in Bap => r.by \in since'[r.id]
      <4>1. r.id \in Call
        BY <1>1 DEF Page, Reply
      <4>2. Requested(r.id, w) /\ (pc[r.id] = "answer" /\ r.by \in Bap => r.by \in since[r.id])
        BY <1>1 DEF PageInv
      <4> QED
        BY <1>9, <4>1, <4>2 DEF MovesOn, Requested
    <3>2. Len(q.inbox) = 0
      BY <1>4
    <3>3. q.loaded \subseteq 1 .. q.appended /\ t.iframe \in 0 .. q.appended
      BY <1>3, <1>4, <1>5
    <3> QED
      BY <1>4, <1>6, <2>5, <2>7, <3>1, <3>2, <3>3 DEF PageInv
  <2> QED
    BY <2>6, <2>7
<1>11. ASSUME NEW d \in Call PROVE CallInv(d)'
  <2>1. CASE d # c /\ via[d] # w
    <3>1. /\ via[d] \in Signer /\ pc'[d] = pc[d] /\ answer'[d] = answer[d]
          /\ via'[d] = via[d] /\ since'[d] = since[d] /\ SameFrame(via[d])
          /\ latest'[via[d]] = latest[via[d]] /\ page'[via[d]] = page[via[d]]
      BY <1>1, <1>6, <1>7, <2>1 DEF Notes, InstanceTypes
    <3> QED
      BY <3>1, CallFrame
  <2>2. CASE d # c /\ via[d] = w
    <3>1. /\ pc'[d] = pc[d] /\ via'[d] = w /\ since[d] \subseteq since'[d]
          /\ pc[d] \in {"send", "answer"} => latest'[w] \in since'[d]
          /\ CallInv(d)
      BY <1>1, <1>7, <2>2 DEF Notes
    <3>2. Len(q.inbox) = 0
      BY <1>4
    <3>3. ToldFrom(since'[d], q, 0, Len(q.inbox) + 1)
      BY <1>4, <3>2 DEF ToldFrom
    <3>4. ToldOf(since'[d], q, Len(q.inbox) + 1)
      BY <3>2, <3>3 DEF ToldOf
    <3> QED
      BY <1>3, <1>6, <2>2, <3>1, <3>4 DEF CallInv
  <2>3. CASE d = c
    <3>1. answer'[c] = NoBap
      BY <1>1 DEF CallInv, Ready
    <3> QED
      BY <1>7, <2>3, <3>1, SignerAssumption DEF CallInv
  <2> QED
    BY <2>1, <2>2, <2>3
<1> QED
  BY <1>8, <1>10, <1>11 DEF SignerInv

\* A request is posted behind an identity of its call; a signer that was destroyed
\* meanwhile refuses.
LEMMA SendStep ==
    ASSUME SignerInv, NEW c \in Call, Send(c)
    PROVE  SignerInv'
<1> DEFINE w == via[c]
           m == [type |-> "CWI", id |-> c]
<1>1. /\ InstanceTypes /\ w \in Signer /\ page[w] \in Page /\ cwi[w] \in Fields
      /\ \A v \in Signer : FieldsInv(v) /\ PageInv(v)
      /\ \A d \in Call : CallInv(d)
  BY DEF SignerInv, InstanceTypes
<1>2. pc[c] = "send" /\ latest' = latest /\ since' = since /\ via' = via /\ handshake' = handshake
  BY DEF Send, Fail
<1>3. CASE Fail(c) /\ UNCHANGED <<cwi, page>>
  <2>1. pc' = [pc EXCEPT ![c] = "settled"] /\ answer' = [answer EXCEPT ![c] = "error"]
    BY <1>1, <1>3 DEF Fail, Settled, InstanceTypes
  <2> QED
    BY <1>1, <1>2, <1>3, <2>1, QuietStep DEF SameFrame, InstanceTypes
<1>4. CASE /\ ~cwi[w].destroyed
           /\ cwi' = [cwi EXCEPT ![w] = [cwi[w] EXCEPT !.pending = @ \cup {c}]]
           /\ page' = [page EXCEPT ![w] = Posted(page[w], cwi[w], m)]
           /\ pc' = [pc EXCEPT ![c] = "answer"]
           /\ answer' = answer
  <2> DEFINE p == page[w]
             q == Posted(p, cwi[w], m)
  <2>1. /\ cwi' \in [Signer -> Fields] /\ cwi'[w].pending = cwi[w].pending \cup {c}
        /\ cwi'[w].waiter = cwi[w].waiter /\ cwi'[w].currentBapId = cwi[w].currentBapId
        /\ \A v \in Signer : v # w => cwi'[v] = cwi[v]
        /\ \A v \in Signer : SameFrame(v)
    <3>1. cwi[w].pending \cup {c} \in SUBSET Call
      BY <1>1 DEF Fields
    <3>2. cwi'[w] = [cwi[w] EXCEPT !.pending = cwi[w].pending \cup {c}]
      BY <1>1, <1>4 DEF InstanceTypes
    <3>3. /\ cwi'[w] \in Fields /\ cwi'[w].pending = cwi[w].pending \cup {c}
          /\ cwi'[w].waiter = cwi[w].waiter /\ cwi'[w].currentBapId = cwi[w].currentBapId
          /\ cwi'[w].iframe = cwi[w].iframe /\ cwi'[w].destroyed = cwi[w].destroyed
      BY <1>1, <3>1, <3>2 DEF Fields
    <3> QED
      BY <1>1, <1>4, <3>3 DEF InstanceTypes, SameFrame
  <2>2. /\ q \in Page /\ q.appended = p.appended /\ q.loaded = p.loaded
        /\ q.bapId = p.bapId /\ q.replies = p.replies
        /\ Len(p.inbox) \in Nat
        /\ \A i \in 1 .. Len(p.inbox) : q.inbox[i] = p.inbox[i]
        /\ \/ q.inbox = p.inbox
           \/ /\ cwi[w].iframe \in p.loaded
              /\ Len(q.inbox) = Len(p.inbox) + 1 /\ q.inbox[Len(p.inbox) + 1] = m
    <3>1. p.inbox \in Seq(Message) /\ m \in Message /\ Len(p.inbox) \in Nat
      BY <1>1 DEF Page, Message
    <3>2. /\ Append(p.inbox, m) \in Seq(Message) /\ Len(Append(p.inbox, m)) = Len(p.inbox) + 1
          /\ \A i \in 1 .. Len(p.inbox) : Append(p.inbox, m)[i] = p.inbox[i]
          /\ Append(p.inbox, m)[Len(p.inbox) + 1] = m
      BY <3>1
    <3>3. CASE q = p
      BY <1>1, <3>1, <3>3
    <3>4. CASE q = [p EXCEPT !.inbox = Append(@, m)] /\ cwi[w].iframe \in p.loaded
      <4>1. /\ q \in Page /\ q.inbox = Append(p.inbox, m)
            /\ q.appended = p.appended /\ q.loaded = p.loaded
            /\ q.bapId = p.bapId /\ q.replies = p.replies
        BY <1>1, <3>2, <3>4 DEF Page
      <4> HIDE DEF q, m, p
      <4> QED
        BY <3>1, <3>2, <3>4, <4>1
    <3> QED
      BY <3>3, <3>4 DEF Posted
  <2>3. /\ page'[w] = q /\ page' \in [Signer -> Page]
        /\ \A v \in Signer : v # w => page'[v] = page[v]
    BY <1>1, <1>4, <2>2 DEF InstanceTypes
  <2> HIDE DEF q
  <2>4. pc'[c] = "answer" /\ \A d \in Call : d # c => pc'[d] = pc[d]
    BY <1>1, <1>4 DEF InstanceTypes
  <2>5. InstanceTypes'
    <3>1. "answer" \in Underway
      BY DEF Underway, Waiting
    <3> QED
      BY <1>1, <1>2, <1>4, <2>1, <2>3, <3>1 DEF InstanceTypes
  <2>6. \A d \in Call : MovesOn(d)
    BY <1>2, <2>4 DEF MovesOn
  <2>7. /\ \A S : \A i \in 1 .. Len(p.inbox) + 1 : ToldOf(S, p, i) => ToldOf(S, q, i)
        /\ ToldOf(since[c], q, Len(p.inbox) + 1)
    <3>1. \A S : \A i \in 1 .. Len(p.inbox) + 1 : ToldOf(S, p, i) => ToldOf(S, q, i)
      <4> SUFFICES ASSUME NEW S, NEW i \in 1 .. Len(p.inbox) + 1, ToldOf(S, p, i)
                   PROVE  ToldOf(S, q, i)
        OBVIOUS
      <4>1. i \in Nat /\ q.bapId = p.bapId /\ \A j \in 1 .. i - 1 : q.inbox[j] = p.inbox[j]
        BY <2>2
      <4> HIDE DEF p
      <4> QED
        BY <4>1, ToldPrefix
    <3>2. ToldOf(since[c], p, Len(p.inbox) + 1)
      BY <1>1, <1>2, <1>4 DEF CallInv
    <3> QED
      BY <2>2, <3>1, <3>2
  <2>8. ASSUME NEW v \in Signer PROVE FieldsInv(v)' /\ PageInv(v)'
    <3>1. FieldsInv(v)'
      <4>1. FieldsInv(v) /\ \A d \in Call : cwi[v].waiter = d => d # c
        BY <1>1, <1>2 DEF FieldsInv
      <4>2. cwi'[v].waiter = cwi[v].waiter /\ cwi'[v].currentBapId = latest[v]
        BY <2>1, <4>1 DEF FieldsInv
      <4>3. cwi'[v].pending = {d \in Call : pc'[d] = "answer" /\ via[d] = v}
        <5>1. CASE v = w
          BY <2>1, <2>4, <4>1, <5>1 DEF FieldsInv
        <5>2. CASE v # w
          BY <1>2, <2>1, <2>4, <4>1, <5>2 DEF FieldsInv
        <5> QED
          BY <5>1, <5>2
      <4> QED
        BY <1>2, <2>4, <4>1, <4>2, <4>3 DEF FieldsInv
    <3>2. CASE v # w
      BY <2>1, <2>3, <2>6, <3>1, <3>2, PageFrame
    <3>3. CASE v = w
      <4>1. ASSUME NEW i \in 1 .. Len(q.inbox), q.inbox[i].type = "CWI"
            PROVE  /\ pc'[q.inbox[i].id] \in {"answer", "settled"}
                   /\ via[q.inbox[i].id] = w
                   /\ pc'[q.inbox[i].id] = "answer" => ToldOf(since[q.inbox[i].id], q, i)
        <5>1. CASE i \in 1 .. Len(p.inbox)
          <6>1. PICK d \in Call : d = p.inbox[i].id /\ q.inbox[i] = p.inbox[i]
            BY <1>1, <2>2, <4>1, <5>1, MessageType DEF Page
          <6>2. Requested(d, w) /\ (pc[d] = "answer" => ToldOf(since[d], p, i))
            BY <1>1, <4>1, <5>1, <6>1 DEF PageInv
          <6>3. d # c
            BY <1>2, <6>2 DEF Requested
          <6>4. ToldOf(since[d], p, i) => ToldOf(since[d], q, i)
            BY <2>2, <2>7, <5>1
          <6> QED
            BY <1>2, <2>4, <6>1, <6>2, <6>3, <6>4 DEF Requested
        <5>2. CASE i \notin 1 .. Len(p.inbox)
          <6>1. i = Len(p.inbox) + 1 /\ q.inbox[i] = m
            BY <2>2, <5>2
          <6>2. q.inbox[i].id = c
            BY <6>1
          <6> QED
            BY <1>2, <2>4, <2>7, <6>1, <6>2 DEF Requested
        <5> QED
          BY <5>1, <5>2
      <4>2. ASSUME NEW r \in p.replies
            PROVE  /\ pc'[r.id] \in {"answer", "settled"} /\ via[r.id] = w
                   /\ pc'[r.id] = "answer" /\ r.by \in Bap => r.by \in since[r.id]
        <5>1. r.id \in Call /\ Requested(r.id, w)
              /\ (pc[r.id] = "answer" /\ r.by \in Bap => r.by \in since[r.id])
          BY <1>1 DEF Page, Reply, PageInv
        <5>2. r.id # c
          BY <1>2, <5>1 DEF Requested
        <5> QED
          BY <1>2, <2>4, <5>1, <5>2 DEF Requested
      <4>3. /\ q.loaded \subseteq 1 .. q.appended /\ cwi'[w].iframe \in 0 .. q.appended
            /\ cwi'[w].iframe \notin q.loaded => q.inbox = <<>> /\ q.bapId = NoBap
        BY <1>1, <1>4, <2>1, <2>2 DEF PageInv, SameFrame
      <4> HIDE DEF w
      <4> QED
        BY <1>2, <2>2, <2>3, <3>1, <3>3, <4>1, <4>2, <4>3 DEF PageInv, Requested
    <3> QED
      BY <3>2, <3>3
  <2>9. ASSUME NEW d \in Call PROVE CallInv(d)'
    <3>1. CallInv(d) /\ via[d] \in Signer /\ via'[d] = via[d] /\ answer'[d] = answer[d]
          /\ since'[d] = since[d] /\ latest'[via[d]] = latest[via[d]] /\ SameFrame(via[d])
      BY <1>1, <1>2, <1>4, <2>1 DEF InstanceTypes
    <3>2. CASE d = c
      BY <1>1, <1>2, <1>4, <2>4, <3>1, <3>2 DEF CallInv, SameFrame
    <3>3. CASE d # c /\ via[d] # w
      BY <2>3, <2>4, <3>1, <3>3, CallFrame
    <3>4. CASE d # c /\ via[d] = w
      <4>1. ASSUME ToldOf(since[d], p, Len(p.inbox) + 1)
            PROVE  ToldOf(since[d], q, Len(q.inbox) + 1)
        <5>1. ToldOf(since[d], q, Len(p.inbox) + 1)
          BY <2>2, <2>7, <4>1
        <5>2. CASE q.inbox = p.inbox
          BY <5>1, <5>2
        <5>3. CASE Len(q.inbox) = Len(p.inbox) + 1 /\ q.inbox[Len(p.inbox) + 1] = m
          <6>1. \A i \in Len(p.inbox) + 1 .. (Len(q.inbox) + 1) - 1 :
                   q.inbox[i].type = "SET_IDENTITY" => q.inbox[i].bapId \in since[d]
            BY <2>2, <5>3
          <6>2. /\ Len(p.inbox) + 1 \in Nat /\ Len(q.inbox) + 1 \in Nat
                /\ Len(p.inbox) + 1 <= Len(q.inbox) + 1
            BY <2>2, <5>3
          <6> HIDE DEF p
          <6> QED
            BY <5>1, <6>1, <6>2, ToldOn
        <5> QED
          BY <2>2, <5>2, <5>3
      <4> QED
        BY <2>3, <2>4, <3>1, <3>4, <4>1 DEF CallInv, SameFrame
    <3> QED
      BY <3>2, <3>3, <3>4
  <2> QED
    BY <2>5, <2>8, <2>9 DEF SignerInv
<1> QED
  BY <1>2, <1>3, <1>4 DEF Send
----------------------------------------------------------------------------
(* The invariant of the module-level variables                             *)

ClientTypes ==
    /\ preferLocalServer \in BOOLEAN
    /\ signer \in LocalSigner \cup CloudSigner \cup {NoSigner}
    /\ storedBapId \in Bap \cup {NoBap}
    /\ tokens \subseteq Call
    /\ created \subseteq Signer
    /\ asked \in [Call -> Bap \cup {NoBap}]
    /\ got \in [Call -> LocalSigner \cup CloudSigner \cup {NoSigner}]
    /\ installer \in [by : Call \cup {NoCall}, at : Underway \cup {"idle"}]
    /\ loggedOut \subseteq Call
    /\ leftBehind \subseteq created

\* The module's signer is constructed and alive, and what is not constructed is not
\* destroyed.
SignerAlive ==
    /\ IsKind("iframe") => signer.id \in created /\ ~cwi[signer.id].destroyed
    /\ \A w \in Signer \ created : ~cwi[w].destroyed

\* Only the option brings a local signer, or a call that looks for one.
LocalOnlyPreferred ==
    ~preferLocalServer =>
        /\ ~IsKind("local")
        /\ \A c \in Call : pc[c] \notin {"probe", "authenticate", "tokenBody"}

\* A call that set the signer or found one will return one, unless a logout takes it
\* away; it asks with an identity, and none that has not begun was logged out.
CallsSigner(c) ==
    /\ pc[c] \in {"authenticate", "tokenBody", "locate", "located"} /\ c \notin loggedOut =>
          signer # NoSigner
    /\ pc[c] = "got" /\ got[c] = NoSigner => c \in loggedOut
    /\ pc[c] \notin {"idle", "settled"} => asked[c] \in Bap
    /\ pc[c] = "idle" => c \notin loggedOut

ModuleInv ==
    /\ ClientTypes /\ SignerAlive /\ LocalOnlyPreferred
    /\ OneLiveSigner /\ LogoutIsFinal
    /\ \A c \in Call : CallsSigner(c)

ClientInv == SignerInv /\ ModuleInv

----------------------------------------------------------------------------
(* What the modules do with an instance                                    *)

LEMMA GivenNothing ==
    ASSUME SignerInv, NEW w \in Signer, latest' = latest
    PROVE  Given(w, cwi[w]) /\ Tells(cwi[w], page[w], page[w], latest'[w])
BY TellsNothing DEF SignerInv, InstanceTypes, FieldsInv, Given

LEMMA EnsureReadyStep ==
    ASSUME SignerInv, NEW c \in Call, NEW w \in Signer, Ready(c), Notes(c, w),
           NEW s, Given(w, s), NEW p, Tells(cwi[w], page[w], p, latest'[w]),
           ~s.initialized => p = page[w],
           latest'[w] # NoBap => latest'[w] \in since'[c],
           via' = [via EXCEPT ![c] = w], EnsureReady(c, w, s, p)
    PROVE  SignerInv'
<1>1. CASE TellPage(c, w, s, p)
  BY <1>1, TellStep
<1>2. CASE ~s.initialized /\ StartInit(c, w, s, p) /\ pc' = [pc EXCEPT ![c] = "handshake"]
           /\ answer' = answer
  BY <1>2, InitStep
<1> QED
  BY <1>1, <1>2 DEF EnsureReady

LEMMA SignStep ==
    ASSUME SignerInv, NEW c \in Call, NEW w \in Signer, Sign(c, w)
    PROVE  SignerInv'
<1>1. /\ via' = [via EXCEPT ![c] = w] /\ EnsureReady(c, w, cwi[w], page[w])
      /\ since' = [since EXCEPT ![c] = {latest[w]} \ {NoBap}] /\ latest' = latest
      /\ pc[c] = "idle"
  BY DEF Sign
<1>2. InstanceTypes /\ \A d \in Call : CallInv(d)
  BY DEF SignerInv
<1>3. since'[c] = {latest[w]} \ {NoBap} /\ \A d \in Call : d # c => since'[d] = since[d]
  BY <1>1, <1>2 DEF InstanceTypes
<1>4. latest[w] \in Bap \cup {NoBap} /\ (latest'[w] # NoBap => latest'[w] \in since'[c])
  BY <1>1, <1>2, <1>3 DEF InstanceTypes
<1>5. Notes(c, w)
  BY <1>1, <1>2, <1>3, <1>4 DEF Notes, InstanceTypes, CallInv
<1>6. Ready(c)
  BY <1>1 DEF Ready
<1> QED
  BY <1>1, <1>4, <1>5, <1>6, GivenNothing, EnsureReadyStep

LEMMA PrepareStep ==
    ASSUME SignerInv, NEW c \in Call, Prepare(c)
    PROVE  SignerInv'
<1> DEFINE w == via[c]
<1>1. /\ TellPage(c, w, cwi[w], page[w])
      /\ since' = [since EXCEPT ![c] = {latest[w]} \ {NoBap}] /\ latest' = latest
      /\ via' = via /\ pc[c] = "prepare"
  BY DEF Prepare
<1>2. InstanceTypes /\ w \in Signer /\ \A d \in Call : CallInv(d)
  BY DEF SignerInv, InstanceTypes
<1>3. since'[c] = {latest[w]} \ {NoBap} /\ \A d \in Call : d # c => since'[d] = since[d]
  BY <1>1, <1>2 DEF InstanceTypes
<1>4. latest[w] \in Bap \cup {NoBap} /\ (latest'[w] # NoBap => latest'[w] \in since'[c])
  BY <1>1, <1>2, <1>3 DEF InstanceTypes
<1>5. Notes(c, w)
  BY <1>1, <1>2, <1>3, <1>4 DEF Notes, InstanceTypes, CallInv
<1>6. Ready(c)
  BY <1>1 DEF Ready
<1>7. via' = [via EXCEPT ![c] = w]
  BY <1>1, <1>2 DEF InstanceTypes
<1> HIDE DEF w
<1> QED
  BY <1>1, <1>2, <1>4, <1>5, <1>6, <1>7, GivenNothing, TellStep

\* The await of init()'s handshake returns, to go on at x, or throws.
InitReturns(c, x) ==
    /\ handshake[c] = "resolved"
    /\ cwi' = [cwi EXCEPT ![via[c]].initialized = TRUE]
    /\ pc' = [pc EXCEPT ![c] = x]
    /\ UNCHANGED <<page, via, handshake, answer, latest, since>>

LEMMA InitReturnsStep ==
    ASSUME SignerInv, NEW c \in Call, pc[c] \in {"locate", "handshake"},
           NEW x \in {"located", "prepare"}, InitReturns(c, x)
    PROVE  SignerInv'
<1>1. InstanceTypes /\ CallInv(c) /\ via[c] \in Signer
  BY DEF SignerInv, InstanceTypes
<1>2. answer' = [answer EXCEPT ![c] = NoBap]
  BY <1>1 DEF InitReturns, InstanceTypes, CallInv
<1>3. x \in Underway \cup {"settled"}
  BY DEF Underway, Locating, Waiting
<1>4. /\ cwi' \in [Signer -> Fields]
      /\ \A w \in Signer : SameFrame(w)
      /\ \A w \in Signer : cwi'[w].currentBapId = cwi[w].currentBapId
      /\ \A w \in Signer : cwi'[w].pending = cwi[w].pending
      /\ \A w \in Signer : cwi'[w].waiter = cwi[w].waiter
  <2> DEFINE s == cwi[via[c]]
             t == [s EXCEPT !.initialized = TRUE]
  <2>1. s \in Fields /\ cwi' = [cwi EXCEPT ![via[c]] = t] /\ cwi \in [Signer -> Fields]
    BY <1>1 DEF InitReturns, InstanceTypes
  <2>2. t \in Fields
    BY <2>1 DEF Fields
  <2>3. /\ t.iframe = s.iframe /\ t.destroyed = s.destroyed /\ t.pending = s.pending
        /\ t.currentBapId = s.currentBapId /\ t.waiter = s.waiter
    BY <2>1 DEF Fields
  <2> HIDE DEF t
  <2>4. cwi'[via[c]] = t /\ \A w \in Signer : w # via[c] => cwi'[w] = cwi[w]
    BY <1>1, <2>1
  <2> QED
    BY <1>1, <2>1, <2>2, <2>3, <2>4 DEF SameFrame
<1>5. page' = page /\ via' = via /\ handshake' = handshake /\ latest' = latest /\ since' = since
  BY DEF InitReturns
<1> QED
  BY <1>2, <1>3, <1>4, <1>5, QuietStep DEF InitReturns

\* A call goes on, or fails, and nothing else changes.
LEMMA GoStep ==
    ASSUME SignerInv, NEW c \in Call, NEW x \in Underway,
           pc[c] \notin {"answer", "settled"}, x \notin {"send", "answer"},
           pc[c] \in {"locate", "handshake"} => handshake[c] # "open",
           pc' = [pc EXCEPT ![c] = x],
           UNCHANGED <<cwi, page, via, handshake, answer, latest, since>>
    PROVE  SignerInv'
<1>1. answer' = [answer EXCEPT ![c] = NoBap]
  BY DEF SignerInv, InstanceTypes, CallInv
<1>2. cwi' \in [Signer -> Fields] /\ x # "settled" /\ x \in Underway \cup {"settled"}
  BY DEF SignerInv, InstanceTypes, Underway, Locating, Waiting
<1> QED
  BY <1>1, <1>2, QuietStep DEF SameFrame

LEMMA FailStep ==
    ASSUME SignerInv, NEW c \in Call, NEW r \in {NoBap, "error"},
           pc[c] \notin {"answer", "settled"},
           pc[c] \in {"locate", "handshake"} => handshake[c] # "open",
           Settled({c}, r),
           UNCHANGED <<cwi, page, via, handshake, latest, since>>
    PROVE  SignerInv'
<1>1. pc' = [pc EXCEPT ![c] = "settled"] /\ answer' = [answer EXCEPT ![c] = r]
  BY DEF Settled, SignerInv, InstanceTypes
<1>2. cwi' \in [Signer -> Fields]
  BY DEF SignerInv, InstanceTypes
<1> QED
  BY <1>1, <1>2, QuietStep DEF SameFrame

LEMMA ContinueStep ==
    ASSUME SignerInv, NEW c \in Call, Continue(c)
    PROVE  SignerInv'
<1>1. CASE InitDone(c)
  BY <1>1, InitReturnsStep DEF InitDone, InitReturns
<1>2. CASE InitFailed(c)
  BY <1>2, FailStep DEF InitFailed, Fail
<1>3. CASE Prepare(c)
  BY <1>3, PrepareStep
<1>4. CASE Send(c)
  BY <1>4, SendStep
<1>5. CASE RequestTimeout(c)
  BY <1>5, RequestTimeoutStep
<1>6. CASE \E w \in Signer : HandshakeTimeout(w, c)
  BY <1>6, HandshakeTimeoutStep
<1> QED
  BY <1>1, <1>2, <1>3, <1>4, <1>5, <1>6 DEF Continue

LEMMA PageStep ==
    ASSUME SignerInv, NEW w \in Signer, SignerStep(w)
    PROVE  SignerInv'
BY LoadPageStep, ReadMessageStep, AnswerStep, StateMessageStep DEF SignerStep

\* A step that has nothing to do with instances.
LEMMA SignerUnchanged ==
    SignerInv /\ UNCHANGED signerVars => SignerInv'
BY DEF signerVars, SignerInv, InstanceTypes, FieldsInv, PageInv, CallInv, Requested,
       ToldOf, ToldFrom
\* The step is one of the call d while it signs, if it is one of d at all, and no
\* instance is destroyed in it.
Signs(d) ==
    \/ pc'[d] = pc[d]
    \/ pc[d] \in Waiting /\ pc'[d] \in Waiting \cup {"settled"}

NoneDestroyed == \A w \in Signer : cwi'[w].destroyed = cwi[w].destroyed

LEMMA SettledSigns ==
    ASSUME SignerInv, NEW C, NEW r, Settled(C, r), \A d \in C : pc[d] \in Waiting
    PROVE  \A d \in Call : Signs(d)
BY DEF Settled, Signs, SignerInv, InstanceTypes

LEMMA TellMoves ==
    ASSUME SignerInv, NEW c \in Call, NEW w \in Signer, NEW s, NEW p,
           TellPage(c, w, s, p), s.destroyed = cwi[w].destroyed
    PROVE  /\ NoneDestroyed
           /\ \A d \in Call : d # c => pc'[d] = pc[d]
           /\ pc'[c] \in {"send", "settled"}
<1>1. cwi' = [cwi EXCEPT ![w] = s] /\ InstanceTypes
  BY DEF TellPage, SignerInv
<1>2. NoneDestroyed
  BY <1>1 DEF NoneDestroyed, InstanceTypes
<1> QED
  BY <1>1, <1>2 DEF TellPage, Settled, InstanceTypes

LEMMA InitMoves ==
    ASSUME SignerInv, NEW c \in Call, NEW w \in Signer, NEW s \in Fields, NEW p,
           StartInit(c, w, s, p), s.destroyed = cwi[w].destroyed
    PROVE  NoneDestroyed
<1>1. PICK t : cwi' = [cwi EXCEPT ![w] = t] /\ t.destroyed = s.destroyed
  <2> DEFINE n == p.appended + 1
             t1 == [s EXCEPT !.iframe = n]
             t2 == [t1 EXCEPT !.waiter = c, !.timers = @ \cup {c}]
  <2>1. t1.destroyed = s.destroyed
    BY DEF Fields
  <2>2. t2.destroyed = s.destroyed
    BY DEF Fields
  <2>3. cwi' = [cwi EXCEPT ![w] = t1] \/ cwi' = [cwi EXCEPT ![w] = t2]
    BY DEF StartInit
  <2> HIDE DEF t1, t2
  <2> QED
    BY <2>1, <2>2, <2>3
<1> QED
  BY <1>1 DEF NoneDestroyed, SignerInv, InstanceTypes

LEMMA ContinueMoves ==
    ASSUME SignerInv, NEW c \in Call, Continue(c)
    PROVE  NoneDestroyed /\ \A d \in Call : Signs(d)
<1> DEFINE w == via[c]
<1>1. /\ InstanceTypes /\ w \in Signer /\ cwi \in [Signer -> Fields] /\ cwi[w] \in Fields
      /\ \A v \in Signer : FieldsInv(v)
  BY DEF SignerInv, InstanceTypes
<1>2. CASE InitDone(c)
  <2>1. NoneDestroyed
    BY <1>1, <1>2 DEF InitDone, NoneDestroyed, Fields
  <2> QED
    BY <1>1, <1>2, <2>1 DEF InitDone, Signs, Waiting, InstanceTypes
<1>3. CASE InitFailed(c)
  BY <1>3, SettledSigns DEF InitFailed, Fail, NoneDestroyed, Waiting
<1>4. CASE Prepare(c)
  <2>1. /\ NoneDestroyed /\ \A d \in Call : d # c => pc'[d] = pc[d]
        /\ pc'[c] \in {"send", "settled"}
    BY <1>1, <1>4, TellMoves DEF Prepare
  <2> QED
    BY <1>4, <2>1 DEF Prepare, Signs, Waiting
<1>5. CASE Send(c)
  <2>1. CASE Fail(c) /\ cwi' = cwi
    BY <1>5, <2>1, SettledSigns DEF Send, Fail, NoneDestroyed, Waiting
  <2>2. CASE /\ cwi' = [cwi EXCEPT ![w].pending = @ \cup {c}]
             /\ pc' = [pc EXCEPT ![c] = "answer"]
    <3>1. NoneDestroyed
      BY <1>1, <2>2 DEF NoneDestroyed, Fields
    <3> QED
      BY <1>1, <1>5, <2>2, <3>1 DEF Send, Signs, Waiting, InstanceTypes
  <2> QED
    BY <1>5, <2>1, <2>2 DEF Send
<1>6. CASE RequestTimeout(c)
  <2>1. NoneDestroyed
    BY <1>1, <1>6 DEF RequestTimeout, NoneDestroyed, Fields
  <2>2. pc[c] \in Waiting
    BY <1>1, <1>6 DEF RequestTimeout, FieldsInv, Waiting
  <2> QED
    BY <1>6, <2>1, <2>2, SettledSigns DEF RequestTimeout, Fail
<1>7. CASE \E v \in Signer : HandshakeTimeout(v, c)
  <2>1. NoneDestroyed
    BY <1>1, <1>7 DEF HandshakeTimeout, NoneDestroyed, Fields
  <2> QED
    BY <1>7, <2>1 DEF HandshakeTimeout, Signs
<1> QED
  BY <1>2, <1>3, <1>4, <1>5, <1>6, <1>7 DEF Continue

LEMMA PageMoves ==
    ASSUME SignerInv, NEW w \in Signer, SignerStep(w)
    PROVE  NoneDestroyed /\ \A d \in Call : Signs(d)
<1>1. /\ cwi \in [Signer -> Fields] /\ cwi[w] \in Fields
      /\ \A c \in cwi[w].pending : pc[c] \in Waiting
  BY DEF SignerInv, InstanceTypes, FieldsInv, Waiting
<1>2. CASE LoadPage(w) \/ ReadMessage(w)
  BY <1>2 DEF LoadPage, ReadMessage, NoneDestroyed, Signs
<1>3. ASSUME NEW r \in page[w].replies, Answer(w, r)
      PROVE  NoneDestroyed /\ \A d \in Call : Signs(d)
  <2>1. CASE r.id \in cwi[w].pending /\ cwi' = [cwi EXCEPT ![w].pending = @ \ {r.id}]
             /\ Settled({r.id}, r.by)
    <3>1. NoneDestroyed
      BY <1>1, <2>1 DEF NoneDestroyed, Fields
    <3> QED
      BY <1>1, <2>1, <3>1, SettledSigns
  <2>2. CASE UNCHANGED <<cwi, pc, answer>>
    BY <2>2 DEF NoneDestroyed, Signs
  <2> QED
    BY <1>3, <2>1, <2>2 DEF Answer
<1>4. ASSUME NEW status \in Status, StateMessage(w, status)
      PROVE  NoneDestroyed /\ \A d \in Call : Signs(d)
  <2> DEFINE C == IF status = "error" THEN cwi[w].pending ELSE {}
  <2>1. cwi' = [cwi EXCEPT ![w] = [cwi[w] EXCEPT
                  !.handshakeComplete = TRUE, !.waiter = NoCall, !.timers = {}, !.pending = @ \ C]]
        /\ Settled(C, "error")
    BY <1>1, <1>4 DEF StateMessage
  <2>2. \A d \in C : pc[d] \in Waiting
    BY <1>1
  <2> HIDE DEF C
  <2>3. NoneDestroyed
    BY <1>1, <2>1 DEF NoneDestroyed, Fields
  <2> QED
    BY <2>1, <2>2, <2>3, SettledSigns
<1> QED
  BY <1>2, <1>3, <1>4 DEF SignerStep

----------------------------------------------------------------------------
(* CWISigner                                                               *)

\* Without the client around it, a call is never located.
AloneInv == SignerInv /\ pc \in [Call -> Waiting \cup {"idle", "settled"}]

LEMMA AloneStep == AloneInv /\ [SignerNext]_signerVars => AloneInv'
<1> SUFFICES ASSUME AloneInv, [SignerNext]_signerVars PROVE AloneInv'
  OBVIOUS
<1>1. SignerInv /\ \A d \in Call : pc[d] \in Waiting \cup {"idle", "settled"}
  BY DEF AloneInv
<1> SUFFICES SignerInv' /\ \A d \in Call : pc'[d] \in Waiting \cup {"idle", "settled"}
  BY DEF AloneInv, SignerInv, InstanceTypes
<1>2. ASSUME NEW c \in Call, NEW w \in Signer, Sign(c, w)
      PROVE  SignerInv' /\ \A d \in Call : pc'[d] \in Waiting \cup {"idle", "settled"}
  <2>1. SignerInv'
    BY <1>1, <1>2, SignStep
  <2>2. CASE TellPage(c, w, cwi[w], page[w])
    BY <1>1, <2>1, <2>2, TellMoves DEF Waiting
  <2>3. CASE pc' = [pc EXCEPT ![c] = "handshake"]
    BY <1>1, <2>1, <2>3 DEF SignerInv, InstanceTypes, Waiting
  <2> QED
    BY <1>2, <2>2, <2>3 DEF Sign, EnsureReady
<1>3. ASSUME NEW c \in Call, Continue(c)
      PROVE  SignerInv' /\ \A d \in Call : pc'[d] \in Waiting \cup {"idle", "settled"}
  BY <1>1, <1>3, ContinueStep, ContinueMoves DEF Signs
<1>4. ASSUME NEW w \in Signer, SignerStep(w)
      PROVE  SignerInv' /\ \A d \in Call : pc'[d] \in Waiting \cup {"idle", "settled"}
  BY <1>1, <1>4, PageStep, PageMoves DEF Signs
<1>5. ASSUME NEW w \in Signer, Destroy(w)
      PROVE  SignerInv' /\ \A d \in Call : pc'[d] \in Waiting \cup {"idle", "settled"}
  BY <1>1, <1>5, DestroyStep DEF Destroy, Settled
<1>6. ASSUME NEW w \in Signer, NEW b \in Bap, SetIdentity(w, b)
      PROVE  SignerInv' /\ \A d \in Call : pc'[d] \in Waiting \cup {"idle", "settled"}
  BY <1>1, <1>6, SetIdentityStep DEF SetIdentity, callVars
<1>7. CASE UNCHANGED signerVars
  BY <1>1, <1>7, SignerUnchanged DEF signerVars
<1> QED
  BY <1>2, <1>3, <1>4, <1>5, <1>6, <1>7 DEF SignerNext

LEMMA AloneAlways == SignerSpec => []AloneInv
<1>1. SignerInit => AloneInv
  BY InitSigner DEF SignerInit, AloneInv
<1> QED
  BY <1>1, AloneStep, PTL DEF SignerSpec

\* Pending requests and registered promises are those of calls that await them
\* (sigma-cwi.ts:191-217, 258-299): none is settled twice, none is forgotten.
THEOREM SignerTypes == SignerSpec => []SignerTypeOK
<1>1. AloneInv => SignerTypeOK
  BY DEF AloneInv, SignerInv, InstanceTypes, FieldsInv, SignerTypeOK, Waiting
<1> QED
  BY <1>1, AloneAlways, PTL

\* A signature is by an identity that was set no earlier than the call was made ready
\* (sigma-cwi.ts:245, 248-254), whatever iframes come and go.
THEOREM IdentityNeverStale == SignerSpec => []NoStaleIdentity
<1>1. AloneInv => NoStaleIdentity
  BY DEF AloneInv, SignerInv, CallInv, NoStaleIdentity
<1> QED
  BY <1>1, AloneAlways, PTL

\* No call waits for the answer of an instance that was destroyed (sigma-cwi.ts:337-353).
THEOREM DestroyedNeverAwaited == SignerSpec => []NoneWaitsOnDestroyed
<1>1. AloneInv => NoneWaitsOnDestroyed
  BY DEF AloneInv, SignerInv, CallInv, NoneWaitsOnDestroyed
<1> QED
  BY <1>1, AloneAlways, PTL
----------------------------------------------------------------------------
(* SignerClient: what a step does to an instance                           *)

\* getOrCreateSigner() awaits the init() of the instance w.
LEMMA AwaitInitStep ==
    ASSUME SignerInv, NEW c \in Call, NEW w \in Signer, pc[c] \in {"idle", "probe"},
           AwaitInit(c, w), UNCHANGED <<answer, latest, since>>
    PROVE  /\ SignerInv' /\ NoneDestroyed
           /\ pc'[c] = "locate" /\ \A d \in Call : d # c => pc'[d] = pc[d]
<1>1. /\ via' = [via EXCEPT ![c] = w] /\ StartInit(c, w, cwi[w], page[w])
      /\ pc' = [pc EXCEPT ![c] = "locate"]
      /\ answer' = answer /\ latest' = latest /\ since' = since
  BY DEF AwaitInit, Goto
<1>2. InstanceTypes /\ \A d \in Call : CallInv(d)
  BY DEF SignerInv
<1>3. Notes(c, w)
  BY <1>1, <1>2 DEF Notes, InstanceTypes, CallInv
<1>4. Ready(c)
  BY DEF Ready
<1>5. SignerInv'
  BY <1>1, <1>3, <1>4, GivenNothing, InitStep
<1>6. NoneDestroyed
  BY <1>1, <1>2, InitMoves DEF InstanceTypes
<1> QED
  BY <1>1, <1>2, <1>5, <1>6 DEF InstanceTypes

\* A CWI signer is given the identity of the call, and asked.
LEMMA UseCloudStep ==
    ASSUME SignerInv, NEW c \in Call, UseCloud(c), asked[c] \in Bap
    PROVE  /\ SignerInv' /\ NoneDestroyed
           /\ pc'[c] \in Waiting \cup {"settled"} /\ \A d \in Call : d # c => pc'[d] = pc[d]
<1>1. PICK w \in Signer : got[c] = [kind |-> "iframe", id |-> w]
  BY DEF UseCloud, CloudSigner
<1> DEFINE b == asked[c]
           s == [cwi[w] EXCEPT !.currentBapId = b]
           p == TellIdentity(page[w], cwi[w], b)
<1>2. /\ pc[c] = "got" /\ via' = [via EXCEPT ![c] = w] /\ EnsureReady(c, w, s, p)
      /\ latest' = [latest EXCEPT ![w] = b]
      /\ since' = [d \in Call |->
            IF d = c THEN {b}
            ELSE IF via[d] = w /\ pc[d] \in {"send", "answer"} THEN since[d] \cup {b}
            ELSE since[d]]
  BY <1>1 DEF UseCloud, WithIdentity
<1>3. /\ InstanceTypes /\ cwi[w] \in Fields /\ page[w] \in Page
      /\ \A d \in Call : CallInv(d)
  BY DEF SignerInv, InstanceTypes
<1>4. latest'[w] = b /\ since'[c] = {b}
  BY <1>2, <1>3 DEF InstanceTypes
<1>5. Ready(c)
  BY <1>2 DEF Ready
<1>6. Notes(c, w)
  BY <1>2, <1>3 DEF Notes, InstanceTypes
<1>7. Given(w, s) /\ s.initialized = cwi[w].initialized /\ s.destroyed = cwi[w].destroyed
  BY <1>3, <1>4 DEF Given, Fields
<1>8. Tells(cwi[w], page[w], p, latest'[w]) /\ (~cwi[w].initialized => p = page[w])
  BY <1>3, <1>4, TellsNothing, TellsOnce DEF TellIdentity
<1> HIDE DEF s, p
<1>9. SignerInv'
  BY <1>2, <1>4, <1>5, <1>6, <1>7, <1>8, EnsureReadyStep
<1>10. CASE TellPage(c, w, s, p)
  BY <1>7, <1>9, <1>10, TellMoves DEF Waiting
<1>11. CASE StartInit(c, w, s, p) /\ pc' = [pc EXCEPT ![c] = "handshake"]
  <2>1. NoneDestroyed
    BY <1>7, <1>11, InitMoves DEF Given
  <2> QED
    BY <1>3, <1>9, <1>11, <2>1 DEF InstanceTypes, Waiting
<1> QED
  BY <1>2, <1>10, <1>11 DEF EnsureReady

----------------------------------------------------------------------------
(* SignerClient: what a step does to the module-level variables            *)

LEMMA SignerKinds ==
    ASSUME ClientTypes
    PROVE  /\ IsKind("iframe") =>
                 signer.id \in Signer /\ signer = Cloud(signer.id) /\ signer # NoSigner
           /\ IsKind("local") =>
                 signer.id \in Call /\ signer = Local(signer.id) /\ signer # NoSigner
           /\ \A w \in Signer : Cloud(w) \in CloudSigner /\ Cloud(w) # NoSigner
           /\ \A d \in Call : Local(d) \in LocalSigner /\ Local(d) # NoSigner
BY NoSignerAssumption
   DEF ClientTypes, IsKind, LocalSigner, CloudSigner, Local, Cloud

\* The call d goes on without the module's variables, or not at all.
Onward(d) ==
    \/ pc'[d] = pc[d] \/ pc'[d] = "settled"
    \/ pc[d] \notin {"idle", "settled"} /\ pc'[d] \in Waiting \cup {"localAnswer", "localBody"}
    \/ pc[d] = "locate" /\ pc'[d] = "located"

LEMMA ModuleFrame ==
    ASSUME ModuleInv, UNCHANGED clientVars, NoneDestroyed, \A d \in Call : Onward(d)
    PROVE  ModuleInv'
<1>1. ClientTypes'
  BY DEF ModuleInv, ClientTypes, clientVars
<1>2. SignerAlive' /\ OneLiveSigner'
  BY SignerKinds
     DEF ModuleInv, ClientTypes, SignerAlive, OneLiveSigner, clientVars, NoneDestroyed,
         IsKind, Cloud
<1>3. LocalOnlyPreferred'
  BY DEF ModuleInv, LocalOnlyPreferred, clientVars, IsKind, Onward, Waiting
<1>4. LogoutIsFinal'
  BY DEF ModuleInv, LogoutIsFinal, clientVars
<1>5. \A d \in Call : CallsSigner(d)'
  BY DEF ModuleInv, CallsSigner, clientVars, Onward, Waiting
<1> QED
  BY <1>1, <1>2, <1>3, <1>4, <1>5 DEF ModuleInv

\* The call c goes on to x, with what it got or asked, and the signer stays.
LEMMA ModuleGo ==
    ASSUME ModuleInv, NEW c \in Call, NEW x,
           pc'[c] = x, \A d \in Call : d # c => pc'[d] = pc[d],
           pc[c] # "settled", x \notin {"idle", "settled"},
           asked' \in [Call -> Bap \cup {NoBap}], asked'[c] \in Bap,
           \A d \in Call : d # c => asked'[d] = asked[d],
           got' \in [Call -> LocalSigner \cup CloudSigner \cup {NoSigner}],
           \A d \in Call : d # c => got'[d] = got[d],
           tokens' \subseteq Call,
           x = "got" => got'[c] # NoSigner \/ c \in loggedOut,
           x \in {"authenticate", "tokenBody", "locate", "located"} =>
               signer # NoSigner \/ c \in loggedOut,
           x \in {"probe", "authenticate", "tokenBody"} => preferLocalServer,
           NoneDestroyed,
           UNCHANGED <<preferLocalServer, signer, storedBapId, created, installer, loggedOut,
                       leftBehind>>
    PROVE  ModuleInv'
<1>1. ClientTypes'
  BY DEF ModuleInv, ClientTypes
<1>2. SignerAlive' /\ OneLiveSigner'
  BY SignerKinds
     DEF ModuleInv, ClientTypes, SignerAlive, OneLiveSigner, NoneDestroyed, IsKind, Cloud
<1>3. LocalOnlyPreferred'
  BY DEF ModuleInv, LocalOnlyPreferred, IsKind
<1>4. LogoutIsFinal'
  BY DEF ModuleInv, LogoutIsFinal
<1>5. \A d \in Call : CallsSigner(d)'
  BY DEF ModuleInv, CallsSigner
<1> QED
  BY <1>1, <1>2, <1>3, <1>4, <1>5 DEF ModuleInv

\* The call c makes the instance w, which was never constructed, the module's signer.
LEMMA ModuleInstalls ==
    ASSUME ModuleInv, NEW c \in Call, NEW w \in Signer \ created,
           pc[c] \in {"idle", "probe"}, ~IsKind("iframe"),
           pc'[c] = "locate", \A d \in Call : d # c => pc'[d] = pc[d],
           asked' \in [Call -> Bap \cup {NoBap}], asked'[c] \in Bap,
           \A d \in Call : d # c => asked'[d] = asked[d],
           created' = created \cup {w}, signer' = Cloud(w),
           installer' = [by |-> c, at |-> pc[c]],
           NoneDestroyed,
           UNCHANGED <<preferLocalServer, storedBapId, tokens, got, loggedOut, leftBehind>>
    PROVE  ModuleInv'
<1>0. /\ ClientTypes /\ SignerAlive /\ LocalOnlyPreferred /\ OneLiveSigner
      /\ \A d \in Call : CallsSigner(d)
  BY DEF ModuleInv
<1>1. /\ ClientTypes' /\ signer' # NoSigner /\ signer'.id = w /\ signer'.kind = "iframe"
  <2>1. /\ signer' \in CloudSigner /\ signer' # NoSigner /\ signer'.id = w
        /\ signer'.kind = "iframe"
    BY <1>0, SignerKinds DEF ClientTypes, Cloud
  <2>2. installer' \in [by : Call \cup {NoCall}, at : Underway \cup {"idle"}]
    BY DEF Underway, Locating
  <2> QED
    BY <1>0, <2>1, <2>2 DEF ClientTypes
<1>2. SignerAlive' /\ ~cwi'[w].destroyed
  BY <1>0, <1>1 DEF SignerAlive, IsKind, NoneDestroyed, ClientTypes
<1>3. OneLiveSigner'
  <2> SUFFICES ASSUME NEW v \in created \cup {w}, ~cwi'[v].destroyed
               PROVE  v = w \/ v \in leftBehind
    BY DEF OneLiveSigner
  <2>1. v \in created => signer = Cloud(v) \/ v \in leftBehind
    BY <1>0 DEF OneLiveSigner, NoneDestroyed, ClientTypes
  <2>2. v \in Signer => (signer = Cloud(v) => IsKind("iframe"))
    BY <1>0, SignerKinds DEF IsKind, Cloud
  <2> QED
    BY <1>0, <2>1, <2>2 DEF ClientTypes
<1>4. LocalOnlyPreferred'
  BY <1>0, <1>1 DEF LocalOnlyPreferred, IsKind
<1>5. LogoutIsFinal'
  BY <1>0 DEF LogoutIsFinal, CallsSigner
<1>6. \A d \in Call : CallsSigner(d)'
  BY <1>0, <1>1 DEF CallsSigner
<1> QED
  BY <1>1, <1>2, <1>3, <1>4, <1>5, <1>6 DEF ModuleInv
----------------------------------------------------------------------------
(* SignerClient: its steps                                                 *)

LEMMA ReturnSignerStep ==
    ASSUME ClientInv, NEW c \in Call, ReturnSigner(c), UNCHANGED otherVars,
           pc[c] \in {"idle", "probe", "authenticate", "tokenBody", "located"},
           asked' \in [Call -> Bap \cup {NoBap}], asked'[c] \in Bap,
           \A d \in Call : d # c => asked'[d] = asked[d],
           tokens' \subseteq Call, signer # NoSigner \/ c \in loggedOut
    PROVE  ClientInv'
<1>1. /\ SignerInv /\ ModuleInv /\ ClientTypes /\ InstanceTypes
      /\ got' = [got EXCEPT ![c] = signer] /\ pc' = [pc EXCEPT ![c] = "got"]
      /\ UNCHANGED <<cwi, page, via, handshake, answer, latest, since>>
      /\ UNCHANGED <<preferLocalServer, signer, storedBapId, created, installer, loggedOut,
                     leftBehind>>
  BY DEF ClientInv, ModuleInv, SignerInv, ReturnSigner, Goto, locateVars, otherVars
<1>2. "got" \in Underway
  BY DEF Underway, Locating
<1>3. SignerInv'
  BY <1>1, <1>2, GoStep
<1>4. /\ got'[c] = signer /\ pc'[c] = "got" /\ NoneDestroyed
      /\ \A d \in Call : d # c => got'[d] = got[d] /\ pc'[d] = pc[d]
      /\ got' \in [Call -> LocalSigner \cup CloudSigner \cup {NoSigner}]
  BY <1>1 DEF ClientTypes, InstanceTypes, NoneDestroyed
<1>5. ModuleInv'
  BY <1>1, <1>4, ModuleGo
<1> QED
  BY <1>3, <1>5 DEF ClientInv

LEMMA FallBackStep ==
    ASSUME ClientInv, NEW c \in Call, FallBack(c), UNCHANGED otherVars,
           pc[c] \in {"idle", "probe"},
           asked' \in [Call -> Bap \cup {NoBap}], asked'[c] \in Bap,
           \A d \in Call : d # c => asked'[d] = asked[d],
           tokens' = tokens
    PROVE  ClientInv'
<1>1. /\ SignerInv /\ ModuleInv /\ ClientTypes
      /\ UNCHANGED <<answer, latest, since, preferLocalServer, storedBapId, loggedOut>>
  BY DEF ClientInv, ModuleInv, otherVars
<1>2. CASE IsKind("iframe") /\ ReturnSigner(c)
  BY <1>1, <1>2, SignerKinds, ReturnSignerStep DEF ClientTypes
<1>3. CASE IsKind("iframe") /\ AwaitInit(c, signer.id) /\ UNCHANGED <<signer, created, installer>>
  <2>1. signer.id \in Signer /\ signer # NoSigner
    BY <1>1, <1>3, SignerKinds
  <2>2. /\ SignerInv' /\ NoneDestroyed
        /\ pc'[c] = "locate" /\ \A d \in Call : d # c => pc'[d] = pc[d]
    BY <1>1, <1>3, <2>1, AwaitInitStep
  <2>3. /\ got' \in [Call -> LocalSigner \cup CloudSigner \cup {NoSigner}]
        /\ \A d \in Call : d # c => got'[d] = got[d]
        /\ tokens' \subseteq Call /\ leftBehind' = leftBehind
    BY <1>1, <1>3 DEF AwaitInit, ClientTypes
  <2>4. ModuleInv'
    BY <1>1, <1>3, <2>1, <2>2, <2>3, ModuleGo
  <2> QED
    BY <2>2, <2>4 DEF ClientInv
<1>4. CASE ~IsKind("iframe") /\ InstallCloud(c)
  <2>1. PICK w \in Signer \ created :
           /\ created' = created \cup {w} /\ signer' = Cloud(w)
           /\ installer' = [by |-> c, at |-> pc[c]]
           /\ AwaitInit(c, w)
    BY <1>4 DEF InstallCloud
  <2>2. /\ SignerInv' /\ NoneDestroyed
        /\ pc'[c] = "locate" /\ \A d \in Call : d # c => pc'[d] = pc[d]
    BY <1>1, <2>1, AwaitInitStep
  <2>3. got' = got /\ leftBehind' = leftBehind
    BY <2>1 DEF AwaitInit
  <2>4. ModuleInv'
    BY <1>1, <1>4, <2>1, <2>2, <2>3, ModuleInstalls
  <2> QED
    BY <2>2, <2>4 DEF ClientInv
<1> QED
  BY <1>2, <1>3, <1>4 DEF FallBack

LEMMA BeginStep ==
    ASSUME ClientInv, NEW c \in Call, Begin(c)
    PROVE  ClientInv'
<1>1. /\ SignerInv /\ ModuleInv /\ ClientTypes /\ InstanceTypes
      /\ pc[c] = "idle" /\ UNCHANGED otherVars /\ tokens' = tokens
  BY DEF ClientInv, ModuleInv, SignerInv, Begin
<1>2. /\ asked' \in [Call -> Bap \cup {NoBap}] /\ asked'[c] \in Bap
      /\ \A d \in Call : d # c => asked'[d] = asked[d]
  BY <1>1 DEF Begin, ClientTypes
<1>3. CASE IsReady /\ ReturnSigner(c)
  <2>1. signer # NoSigner /\ tokens' \subseteq Call
    BY <1>1, <1>3, SignerKinds DEF IsReady, ClientTypes
  <2> QED
    BY <1>1, <1>2, <1>3, <2>1, ReturnSignerStep
<1>4. CASE MayProbe /\ Goto(c, "probe") /\ UNCHANGED <<locateVars, got>>
  <2>1. /\ UNCHANGED <<cwi, page, via, handshake, answer, latest, since>>
        /\ UNCHANGED <<preferLocalServer, signer, storedBapId, created, installer, loggedOut,
                     leftBehind>>
        /\ pc' = [pc EXCEPT ![c] = "probe"] /\ preferLocalServer /\ got' = got
    BY <1>1, <1>4 DEF MayProbe, Goto, locateVars, otherVars
  <2>2. "probe" \in Underway
    BY DEF Underway, Locating
  <2>3. SignerInv'
    BY <1>1, <2>1, <2>2, GoStep
  <2>4. /\ pc'[c] = "probe" /\ NoneDestroyed /\ \A d \in Call : d # c => pc'[d] = pc[d]
        /\ tokens' \subseteq Call
        /\ got' \in [Call -> LocalSigner \cup CloudSigner \cup {NoSigner}]
    BY <1>1, <2>1 DEF InstanceTypes, ClientTypes, NoneDestroyed
  <2>5. ModuleInv'
    BY <1>1, <1>2, <2>1, <2>4, ModuleGo
  <2> QED
    BY <2>3, <2>5 DEF ClientInv
<1>5. CASE FallBack(c)
  BY <1>1, <1>2, <1>5, FallBackStep
<1> QED
  BY <1>3, <1>4, <1>5 DEF Begin

LEMMA ProbeAnsweredStep ==
    ASSUME ClientInv, NEW c \in Call, ProbeAnswered(c)
    PROVE  ClientInv'
<1>1. /\ SignerInv /\ ModuleInv /\ ClientTypes /\ InstanceTypes
      /\ SignerAlive /\ LocalOnlyPreferred /\ OneLiveSigner
      /\ \A d \in Call : CallsSigner(d)
      /\ pc[c] = "probe" /\ UNCHANGED otherVars /\ tokens' = tokens /\ asked' = asked
  BY DEF ClientInv, ModuleInv, SignerInv, ProbeAnswered
<1>2. asked[c] \in Bap
  BY <1>1 DEF CallsSigner
<1>3. CASE /\ signer' = Local(c) /\ installer' = [by |-> c, at |-> pc[c]]
           /\ Goto(c, "authenticate")
           /\ leftBehind' = IF IsKind("iframe") THEN leftBehind \cup {signer.id} ELSE leftBehind
           /\ UNCHANGED <<cwi, page, via, handshake, created, got>>
  <2>1. /\ UNCHANGED <<cwi, page, via, handshake, answer, latest, since>>
        /\ UNCHANGED <<preferLocalServer, storedBapId, created, loggedOut, got>>
        /\ pc' = [pc EXCEPT ![c] = "authenticate"] /\ preferLocalServer
    BY <1>1, <1>3 DEF Goto, otherVars, LocalOnlyPreferred, ClientTypes
  <2>2. "authenticate" \in Underway
    BY DEF Underway, Locating
  <2>3. SignerInv'
    BY <1>1, <2>1, <2>2, GoStep
  <2>4. pc'[c] = "authenticate" /\ \A d \in Call : d # c => pc'[d] = pc[d]
    BY <1>1, <2>1 DEF InstanceTypes
  <2>5. /\ signer' \in LocalSigner /\ signer' # NoSigner /\ signer'.kind = "local"
    BY <1>1, <1>3, SignerKinds DEF Local
  <2>6. ClientTypes'
    <3>1. installer' \in [by : Call \cup {NoCall}, at : Underway \cup {"idle"}]
      BY <1>1, <1>3 DEF Underway, Locating
    <3>2. leftBehind' \subseteq created
      BY <1>1, <1>3 DEF SignerAlive, ClientTypes
    <3> QED
      BY <1>1, <2>1, <2>5, <3>1, <3>2 DEF ClientTypes
  <2>7. SignerAlive'
    BY <1>1, <2>1, <2>5 DEF SignerAlive, IsKind
  <2>8. LocalOnlyPreferred' /\ LogoutIsFinal'
    BY <1>1, <1>3, <2>1 DEF LocalOnlyPreferred, LogoutIsFinal
  <2>10. OneLiveSigner'
    <3> SUFFICES ASSUME NEW w \in created, ~cwi[w].destroyed PROVE w \in leftBehind'
      BY <2>1 DEF OneLiveSigner
    <3>1. w \in Signer /\ (signer = Cloud(w) \/ w \in leftBehind)
      BY <1>1 DEF OneLiveSigner, ClientTypes
    <3>2. signer = Cloud(w) => IsKind("iframe") /\ signer.id = w
      BY <1>1, <3>1, SignerKinds DEF IsKind, Cloud
    <3> QED
      BY <1>3, <3>1, <3>2
  <2>9. \A d \in Call : CallsSigner(d)'
    BY <1>1, <1>2, <2>1, <2>4, <2>5 DEF CallsSigner
  <2> QED
    BY <2>3, <2>6, <2>7, <2>8, <2>9, <2>10 DEF ClientInv, ModuleInv
<1>4. CASE FallBack(c)
  BY <1>1, <1>2, <1>4, FallBackStep DEF ClientTypes
<1> QED
  BY <1>3, <1>4 DEF ProbeAnswered

LEMMA ReturnsStep ==
    ASSUME ClientInv, NEW c \in Call, Authenticated(c) \/ TokenBody(c) \/ Located(c)
    PROVE  ClientInv'
<1>1. /\ ClientTypes /\ \A d \in Call : CallsSigner(d)
      /\ pc[c] \in {"authenticate", "tokenBody", "located"} /\ UNCHANGED otherVars
      /\ asked' = asked
  BY DEF ClientInv, ModuleInv, Authenticated, TokenBody, Located
<1>2. asked[c] \in Bap /\ (signer # NoSigner \/ c \in loggedOut)
  BY <1>1 DEF CallsSigner
<1>3. tokens' \subseteq Call
  BY <1>1 DEF Authenticated, TokenBody, Located, ClientTypes
<1>4. CASE ReturnSigner(c)
  BY <1>1, <1>2, <1>3, <1>4, ReturnSignerStep DEF ClientTypes
<1>5. CASE pc[c] = "authenticate" /\ Goto(c, "tokenBody") /\ UNCHANGED <<locateVars, got>>
  <2>1. /\ SignerInv /\ ModuleInv /\ InstanceTypes
        /\ UNCHANGED <<cwi, page, via, handshake, answer, latest, since>>
        /\ UNCHANGED <<preferLocalServer, signer, storedBapId, created, installer, loggedOut,
                       leftBehind>>
        /\ pc' = [pc EXCEPT ![c] = "tokenBody"] /\ got' = got
    BY <1>1, <1>5 DEF ClientInv, SignerInv, Goto, locateVars, otherVars
  <2>2. "tokenBody" \in Underway
    BY DEF Underway, Locating
  <2>3. SignerInv'
    BY <2>1, <2>2, <1>5, GoStep
  <2>4. /\ pc'[c] = "tokenBody" /\ NoneDestroyed /\ \A d \in Call : d # c => pc'[d] = pc[d]
        /\ got' \in [Call -> LocalSigner \cup CloudSigner \cup {NoSigner}]
        /\ preferLocalServer
    BY <1>1, <1>5, <2>1
       DEF InstanceTypes, ClientTypes, NoneDestroyed, ModuleInv, LocalOnlyPreferred
  <2>5. asked' \in [Call -> Bap \cup {NoBap}] /\ asked'[c] \in Bap
    BY <1>1, <1>2 DEF ClientTypes
  <2>6. ModuleInv'
    BY <1>1, <1>2, <1>3, <1>5, <2>1, <2>4, <2>5, ModuleGo
  <2> QED
    BY <2>3, <2>6 DEF ClientInv
<1> QED
  BY <1>4, <1>5 DEF Authenticated, TokenBody, Located

LEMMA FrameStep ==
    ASSUME ClientInv, UNCHANGED clientVars, SignerInv', NoneDestroyed,
           \A d \in Call : Onward(d)
    PROVE  ClientInv'
BY ModuleFrame DEF ClientInv

\* A call that fails, or that a local server answers, keeps to itself.
LEMMA QuitStep ==
    ASSUME ClientInv, NEW c \in Call,
           BeginRefused(c) \/ NotInitialized(c) \/ UseNull(c) \/ LocalBody(c)
    PROVE  ClientInv'
<1>1. PICK r \in {NoBap, "error"} :
         /\ Settled({c}, r) /\ UNCHANGED <<cwi, page, via, handshake, latest, since>>
         /\ UNCHANGED clientVars
         /\ pc[c] \in {"idle", "locate", "got", "localBody"}
         /\ pc[c] = "locate" => handshake[c] = "rejected"
  BY DEF BeginRefused, NotInitialized, UseNull, LocalBody, Fail
<1>2. SignerInv'
  BY <1>1, FailStep DEF ClientInv
<1>3. NoneDestroyed /\ \A d \in Call : Onward(d)
  BY <1>1 DEF NoneDestroyed, Onward, Settled
<1> QED
  BY <1>1, <1>2, <1>3, FrameStep

LEMMA InitializedStep ==
    ASSUME ClientInv, NEW c \in Call, Initialized(c)
    PROVE  ClientInv'
<1>1. /\ SignerInv /\ InstanceTypes /\ pc[c] = "locate" /\ UNCHANGED clientVars
      /\ InitReturns(c, "located")
  BY DEF ClientInv, SignerInv, Initialized, InitReturns, Goto
<1>2. SignerInv'
  BY <1>1, InitReturnsStep
<1>3. NoneDestroyed
  BY <1>1 DEF InitReturns, InstanceTypes, NoneDestroyed, Fields
<1>4. \A d \in Call : Onward(d)
  BY <1>1 DEF InitReturns, InstanceTypes, Onward
<1> QED
  BY <1>1, <1>2, <1>3, <1>4, FrameStep

LEMMA UseLocalStep ==
    ASSUME ClientInv, NEW c \in Call, UseLocal(c) \/ LocalAnswer(c)
    PROVE  ClientInv'
<1>1. /\ SignerInv /\ InstanceTypes /\ pc[c] \in {"got", "localAnswer"} /\ UNCHANGED clientVars
      /\ UNCHANGED <<cwi, page, via, handshake, latest, since>>
  BY DEF ClientInv, SignerInv, UseLocal, LocalAnswer, Fail
<1>2. ASSUME NEW x \in {"localAnswer", "localBody"}, Goto(c, x), answer' = answer
      PROVE  ClientInv'
  <2>1. x \in Underway /\ pc' = [pc EXCEPT ![c] = x]
    BY <1>2 DEF Underway, Goto
  <2>2. SignerInv'
    BY <1>1, <1>2, <2>1, GoStep
  <2>3. NoneDestroyed /\ \A d \in Call : Onward(d)
    BY <1>1, <2>1 DEF NoneDestroyed, Onward, InstanceTypes
  <2> QED
    BY <1>1, <2>2, <2>3, FrameStep
<1>3. CASE Fail(c)
  <2>1. SignerInv'
    BY <1>1, <1>3, FailStep DEF Fail
  <2>2. NoneDestroyed /\ \A d \in Call : Onward(d)
    BY <1>1, <1>3 DEF NoneDestroyed, Onward, Fail, Settled
  <2> QED
    BY <1>1, <2>1, <2>2, FrameStep
<1> QED
  BY <1>2, <1>3 DEF UseLocal, LocalAnswer

LEMMA UsesStep ==
    ASSUME ClientInv, NEW c \in Call, UseCloud(c)
    PROVE  ClientInv'
<1>1. SignerInv /\ pc[c] = "got" /\ asked[c] \in Bap /\ UNCHANGED clientVars
  BY DEF ClientInv, ModuleInv, CallsSigner, UseCloud
<1>2. /\ SignerInv' /\ NoneDestroyed
      /\ pc'[c] \in Waiting \cup {"settled"} /\ \A d \in Call : d # c => pc'[d] = pc[d]
  BY <1>1, UseCloudStep
<1>3. \A d \in Call : Onward(d)
  BY <1>1, <1>2 DEF Onward
<1> QED
  BY <1>1, <1>2, <1>3, FrameStep

LEMMA InstanceStep ==
    ASSUME ClientInv, UNCHANGED clientVars,
           (\E c \in Call : Continue(c)) \/ (\E w \in Signer : SignerStep(w))
    PROVE  ClientInv'
<1>1. SignerInv
  BY DEF ClientInv
<1>2. SignerInv' /\ NoneDestroyed /\ \A d \in Call : Signs(d)
  BY <1>1, ContinueStep, ContinueMoves, PageStep, PageMoves
<1>3. \A d \in Call : Onward(d)
  BY <1>2 DEF Signs, Onward, Waiting
<1> QED
  BY <1>2, <1>3, FrameStep

LEMMA ChooseIdentityStep ==
    ASSUME ClientInv, NEW b \in Bap, ChooseIdentity(b)
    PROVE  ClientInv'
<1>1. /\ SignerInv /\ InstanceTypes /\ ModuleInv /\ ClientTypes /\ storedBapId' = b
      /\ UNCHANGED <<preferLocalServer, signer, tokens, created, asked, got, installer,
                     loggedOut, leftBehind>>
  BY DEF ClientInv, SignerInv, ModuleInv, ChooseIdentity
<1>2. SignerInv' /\ NoneDestroyed /\ pc' = pc
  <2>1. CASE IsKind("iframe") /\ SetIdentity(signer.id, b)
    <3>1. signer.id \in Signer
      BY <1>1, <2>1, SignerKinds
    <3>2. SignerInv' /\ pc' = pc
      BY <1>1, <2>1, <3>1, SetIdentityStep DEF SetIdentity, callVars
    <3>3. NoneDestroyed
      BY <1>1, <2>1, <3>1 DEF SetIdentity, WithIdentity, NoneDestroyed, InstanceTypes, Fields
    <3> QED
      BY <3>2, <3>3
  <2>2. CASE UNCHANGED signerVars
    BY <1>1, <2>2, SignerUnchanged DEF signerVars, NoneDestroyed
  <2> QED
    BY <2>1, <2>2 DEF ChooseIdentity
<1>3. ClientTypes'
  BY <1>1 DEF ClientTypes
<1>4. SignerAlive' /\ OneLiveSigner'
  BY <1>1, <1>2, SignerKinds
     DEF ModuleInv, ClientTypes, SignerAlive, OneLiveSigner, NoneDestroyed, IsKind, Cloud
<1>5. LocalOnlyPreferred' /\ LogoutIsFinal' /\ \A d \in Call : CallsSigner(d)'
  BY <1>1, <1>2 DEF ModuleInv, LocalOnlyPreferred, IsKind, LogoutIsFinal, CallsSigner
<1> QED
  BY <1>2, <1>3, <1>4, <1>5 DEF ClientInv, ModuleInv

LEMMA CallbackIdentityStep ==
    ASSUME ClientInv, NEW b \in Bap, CallbackIdentity(b)
    PROVE  ClientInv'
<1>1. /\ SignerInv /\ ModuleInv /\ storedBapId' = b /\ UNCHANGED signerVars
      /\ UNCHANGED <<preferLocalServer, signer, tokens, created, asked, got, installer,
                     loggedOut, leftBehind>>
  BY DEF ClientInv, CallbackIdentity
<1>2. SignerInv' /\ cwi' = cwi /\ pc' = pc
  BY <1>1, SignerUnchanged DEF signerVars
<1>3. ClientTypes'
  BY <1>1 DEF ModuleInv, ClientTypes
<1>4. SignerAlive' /\ OneLiveSigner' /\ LocalOnlyPreferred' /\ LogoutIsFinal'
  BY <1>1, <1>2
     DEF ModuleInv, SignerAlive, OneLiveSigner, LocalOnlyPreferred, LogoutIsFinal, IsKind
<1>5. \A d \in Call : CallsSigner(d)'
  BY <1>1, <1>2 DEF ModuleInv, CallsSigner
<1> QED
  BY <1>2, <1>3, <1>4, <1>5 DEF ClientInv, ModuleInv

LEMMA LogoutStep ==
    ASSUME ClientInv, Logout
    PROVE  ClientInv'
<1>1. /\ SignerInv /\ InstanceTypes /\ ClientTypes
      /\ SignerAlive /\ LocalOnlyPreferred /\ OneLiveSigner
      /\ \A d \in Call : CallsSigner(d)
      /\ storedBapId' = NoBap /\ signer' = NoSigner
      /\ loggedOut' = loggedOut \cup {c \in Call : pc[c] \in Underway}
      /\ installer' = Nobody
      /\ UNCHANGED <<preferLocalServer, created, asked, got, leftBehind>>
  BY DEF ClientInv, SignerInv, ModuleInv, Logout
<1>2. /\ SignerInv' /\ tokens' \subseteq Call
      /\ \A w \in Signer : ~(IsKind("iframe") /\ signer.id = w) =>
            cwi'[w].destroyed = cwi[w].destroyed
      /\ IsKind("iframe") => cwi'[signer.id].destroyed
      /\ \A d \in Call : pc'[d] = pc[d] \/ pc'[d] = "settled"
  <2>1. CASE IsKind("iframe") /\ Destroy(signer.id) /\ tokens' = tokens
    <3>1. signer.id \in Signer
      BY <1>1, <2>1, SignerKinds
    <3>2. SignerInv'
      BY <1>1, <2>1, <3>1, DestroyStep
    <3>3. cwi' = [cwi EXCEPT ![signer.id] = [cwi[signer.id] EXCEPT
                     !.destroyed = TRUE, !.iframe = 0, !.initialized = FALSE, !.pending = {}]]
      BY <2>1 DEF Destroy
    <3>4. cwi'[signer.id].destroyed = TRUE /\ \A w \in Signer : w # signer.id => cwi'[w] = cwi[w]
      BY <1>1, <3>1, <3>3 DEF InstanceTypes, Fields
    <3>5. \A d \in Call : pc'[d] = pc[d] \/ pc'[d] = "settled"
      BY <2>1 DEF Destroy, Settled
    <3>6. tokens' \subseteq Call
      BY <1>1, <2>1 DEF ClientTypes
    <3>7. \A w \in Signer : ~(IsKind("iframe") /\ signer.id = w) =>
             cwi'[w].destroyed = cwi[w].destroyed
      BY <2>1, <3>4
    <3> QED
      BY <3>2, <3>4, <3>5, <3>6, <3>7
  <2>2. CASE ~IsKind("iframe") /\ UNCHANGED signerVars /\ tokens' \subseteq tokens
    <3>1. SignerInv'
      BY <1>1, <2>2, SignerUnchanged
    <3>2. cwi' = cwi /\ pc' = pc
      BY <2>2 DEF signerVars
    <3>3. tokens' \subseteq Call
      BY <1>1, <2>2 DEF ClientTypes
    <3> QED
      BY <2>2, <3>1, <3>2, <3>3
  <2> QED
    BY <2>1, <2>2 DEF Logout, IsKind
<1>3. ClientTypes'
  BY <1>1, <1>2 DEF ClientTypes, Nobody
<1>4. SignerAlive' /\ LocalOnlyPreferred'
  BY <1>1, <1>2 DEF SignerAlive, LocalOnlyPreferred, IsKind
<1>5. OneLiveSigner'
  <2> SUFFICES ASSUME NEW w \in created, ~cwi'[w].destroyed PROVE w \in leftBehind
    BY <1>1 DEF OneLiveSigner
  <2>1. w \in Signer /\ (~cwi[w].destroyed => signer = Cloud(w) \/ w \in leftBehind)
    BY <1>1 DEF OneLiveSigner, ClientTypes
  <2>2. signer = Cloud(w) => IsKind("iframe") /\ signer.id = w
    BY <1>1, <2>1, SignerKinds DEF IsKind, Cloud
  <2> QED
    BY <1>2, <2>1, <2>2
<1>6. LogoutIsFinal'
  BY <1>1 DEF LogoutIsFinal
<1>7. \A d \in Call : CallsSigner(d)'
  BY <1>1, <1>2 DEF CallsSigner, Underway, Locating, Waiting
<1> QED
  BY <1>2, <1>3, <1>4, <1>5, <1>6, <1>7 DEF ClientInv, ModuleInv

LEMMA ClientStarts == ClientInit => ClientInv
<1> SUFFICES ASSUME ClientInit PROVE ClientInv
  OBVIOUS
<1>1. SignerInv
  BY InitSigner DEF ClientInit
<1>2. ModuleInv
  BY DEF ClientInit, SignerInit, ModuleInv, ClientTypes, SignerAlive, LocalOnlyPreferred,
         OneLiveSigner, LogoutIsFinal, CallsSigner, IsKind, Nobody
<1> QED
  BY <1>1, <1>2 DEF ClientInv

LEMMA ClientKeeps == ClientInv /\ [ClientNext]_vars => ClientInv'
<1> SUFFICES ASSUME ClientInv, [ClientNext]_vars PROVE ClientInv'
  OBVIOUS
<1>1. ASSUME NEW c \in Call, ClientStep(c) PROVE ClientInv'
  BY <1>1, ProbeAnsweredStep, ReturnsStep, InitializedStep, QuitStep, UseLocalStep,
     UsesStep, InstanceStep DEF ClientStep
<1>2. ASSUME NEW c \in Call, Begin(c) \/ BeginRefused(c) \/ BodyEnds(c) PROVE ClientInv'
  BY <1>2, BeginStep, QuitStep, ReturnsStep DEF BodyEnds
<1>3. ASSUME NEW w \in Signer, SignerStep(w), UNCHANGED clientVars PROVE ClientInv'
  BY <1>3, InstanceStep
<1>4. ASSUME NEW b \in Bap, ChooseIdentity(b) PROVE ClientInv'
  BY <1>4, ChooseIdentityStep
<1>7. ASSUME NEW b \in Bap, CallbackIdentity(b) PROVE ClientInv'
  BY <1>7, CallbackIdentityStep
<1>5. CASE Logout
  BY <1>5, LogoutStep
<1>6. CASE UNCHANGED vars
  <2>1. SignerInv' /\ NoneDestroyed /\ \A d \in Call : Onward(d)
    BY <1>6, SignerUnchanged DEF ClientInv, vars, signerVars, NoneDestroyed, Onward
  <2> QED
    BY <1>6, <2>1, FrameStep DEF vars
<1> QED
  BY <1>1, <1>2, <1>3, <1>4, <1>5, <1>6, <1>7 DEF ClientNext

LEMMA ClientAlways == ClientSpec => []ClientInv
BY ClientStarts, ClientKeeps, PTL DEF ClientSpec

\* The module's signer is one that was constructed and is not destroyed, and a
\* handshake that is registered is awaited by a call (client/index.ts:58-130).
THEOREM ClientSignerConsistent == ClientSpec => []ClientTypeOK
<1>1. ClientInv => ClientTypeOK
  BY DEF ClientInv, SignerInv, InstanceTypes, FieldsInv, ModuleInv, ClientTypes,
         SignerAlive, ClientTypeOK
<1> QED
  BY <1>1, ClientAlways, PTL

\* A CWI instance that is alive is the module's signer, or a local signer took its place
\* (client/index.ts:58, 115), however calls, failed handshakes and logouts interleave.
THEOREM SingletonSigner == ClientSpec => []OneLiveSigner
<1>1. ClientInv => OneLiveSigner
  BY DEF ClientInv, ModuleInv
<1> QED
  BY <1>1, ClientAlways, PTL

\* A call that was under way at a logout brings no signer back (client/index.ts:1105-1106),
\* unless it awaited the local server's probe then (113-133).
THEOREM LogoutStaysFinal == ClientSpec => []LogoutIsFinal
<1>1. ClientInv => LogoutIsFinal
  BY DEF ClientInv, ModuleInv
<1> QED
  BY <1>1, ClientAlways, PTL

\* getOrCreateSigner() returns null only to a call during which the user logged out
\* (client/index.ts:101).
THEOREM SignerPresent == ClientSpec => []NullOnlyAfterLogout
<1>1. ClientInv => NullOnlyAfterLogout
  BY DEF ClientInv, ModuleInv, CallsSigner, NullOnlyAfterLogout
<1> QED
  BY <1>1, ClientAlways, PTL

\* What is proved of the signer alone holds of the one the client drives: calls share
\* it, each sets its own identity, and a logout destroys it under them.
THEOREM ClientIdentityNeverStale ==
    ClientSpec => [](NoStaleIdentity /\ NoneWaitsOnDestroyed)
<1>1. ClientInv => NoStaleIdentity /\ NoneWaitsOnDestroyed
  BY DEF ClientInv, SignerInv, CallInv, NoStaleIdentity, NoneWaitsOnDestroyed
<1> QED
  BY <1>1, ClientAlways, PTL
=============================================================================
