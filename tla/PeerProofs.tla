----------------------------- MODULE PeerProofs -----------------------------
(***************************************************************************)
(* What the pair shows and counts of a message is where the message is,    *)
(* for any number of messages, any allowance, and queues of any length.    *)
(* The provider may begin turns of its own at any time.                    *)
(***************************************************************************)
EXTENDS PeerMessages, TLAPS, SequenceTheorems, FiniteSetTheorems

-----------------------------------------------------------------------------
(* The inductive invariant.                                                *)

Has(q, p) == \E i \in DOMAIN q : q[i] = p
\* Only a message of T is in q more than once.
NoTwice(q, T) == \A i, j \in DOMAIN q :
                   q[i].msg = q[j].msg => i = j \/ q[i].msg \in T

\* Where a prompt may be, when its message is not tangled: in the queue of t;
\* with a send of t that may still start its turn, with a rejected one, or with
\* one whose conversation ended under it; in t's arm or in t's turn.
Kinds == {"queue", "hand", "lost", "left", "arm", "turn"}
InHand(t, p) == send[t].what = p /\ send[t].at \in {"taken", "checked", "busy"}
IsLost(t, p) == send[t].what = p /\ send[t].at = "rejected"
IsLeft(t, p) == /\ send[t].what = p /\ send[t].at = "sent" /\ ~send[t].moved
                /\ arm[t] # p
At(t, k, p) == /\ p.msg \notin tangled
               /\ \/ k = "queue" /\ Has(queue[t], p)
                  \/ k = "hand" /\ InHand(t, p)
                  \/ k = "lost" /\ IsLost(t, p)
                  \/ k = "left" /\ IsLeft(t, p)
                  \/ k = "arm" /\ arm[t] = p /\ p # NoPrompt
                  \/ k = "turn" /\ turn[t] = p /\ p # NoPrompt

\* The provider's side of a Thread.  A turn that begins during a send takes the
\* arm.
Steady(t) ==
  /\ live[t] # NoPrompt => base[t] = "working"
  /\ arm[t] # NoPrompt => live[t] = NoPrompt
  /\ turn[t] # NoPrompt => live[t] # NoPrompt
  /\ send[t].at # "idle" => IsPeer(send[t].what)
  /\ send[t].at \in {"taken", "checked"} => ~send[t].moved
  /\ send[t].at = "sent" =>
       IF send[t].moved THEN arm[t] = NoPrompt
       ELSE /\ live[t] = NoPrompt
            /\ arm[t] # send[t].what => arm[t] = NoPrompt /\ ~conv[t]
  /\ \A p \in floating[t] : IsPeer(p)
Control == \A t \in Threads : Steady(t)

\* The pair's own record.  What a message of T gave back may still be used.
Entry(b, m) == /\ b.msg[m].status \notin {"none", "gone"}
               /\ b.msg[m].allowance <= b.allowance
               /\ b.msg[m].status = "held" => b.held = m
Cleared(b, T) == \A m \in T : b.msg[m].allowance # b.allowance
BookOK(b, T) ==
  /\ b \in Book
  /\ \A i, j \in DOMAIN b.list : b.list[i] = b.list[j] => i = j
  /\ \A m \in ToSet(b.list) : Entry(b, m)
  /\ b.state = "none" => b.list = <<>>
  /\ b.state \in {"none", "denied"} => b.held = None
  /\ b.held # None => b.held \in ToSet(b.list) /\ b.msg[b.held].status = "held"
  /\ Cleared(b, T) => 2 * Cardinality(Owed(b)) <= b.used

\* A message that is on its way or was, and what the provider is given.
Known(m) == m \in Msgs /\ book.msg[m].status \notin {"none", "held"}
KnownOK == /\ \A m \in tangled : Known(m)
           /\ \A t \in Threads : send[t].at = "sent" => Known(send[t].what.msg)

\* What was not delivered has no answer.
Answers(m) == m \in tangled \/
                /\ answers[m] \in 0..1
                /\ book.msg[m].status \in {"none", "held"} => answers[m] = 0
AnswersOK == \A m \in Msgs : Answers(m)

\* How a message may end.
Ends == Final \ {"replied"}

\* A prompt of a message that the pair lists.
Fits(k, p) ==
  /\ p.pair = book.id
  /\ k \in {"queue", "hand", "arm"} =>
       book.msg[p.msg].status = IF p.reply THEN "replying" ELSE "queued"
  /\ k = "lost" => book.msg[p.msg].status \in
                     Ends \cup {IF p.reply THEN "replying" ELSE "queued"}
  /\ k = "left" => book.msg[p.msg].status \in
                     Ends \cup (IF p.reply THEN {"replying"} ELSE {})
  /\ k = "turn" =>
       book.msg[p.msg].status = IF p.reply THEN "replied" ELSE "working"

\* A prompt is on the side of its receiver, and a reply exists once the
\* message was answered.
Fact(t, k, p) ==
  /\ Known(p.msg) /\ p.pair <= book.id
  /\ book.msg[p.msg].from = IF p.reply THEN t ELSE Other(t)
  /\ answers[p.msg] = IF p.reply THEN 1 ELSE 0
  /\ p.msg \in ToSet(book.list) => Fits(k, p)
PlacedOK ==
  \A t \in Threads, k \in Kinds, p \in Prompts : At(t, k, p) => Fact(t, k, p)

\* A message that is not tangled is in one place.
OnePlace == \A t \in Threads, k, l \in Kinds, p, q \in Prompts :
              At(t, k, p) /\ At(t, l, q) /\ p.msg = q.msg => k = l
NoneTwice == \A t \in Threads : NoTwice(queue[t], tangled)

\* What the pair shows as queued or working is somewhere.
Shown(m) == m \in tangled \/
              (book.msg[m].status \in {"queued", "working"} =>
                 \E t \in Threads, k \in Kinds, p \in Prompts :
                   p.msg = m /\ At(t, k, p))
ShownOK == \A m \in ToSet(book.list) : Shown(m)

Inv == /\ TypeOK /\ Control /\ BookOK(book, tangled) /\ KnownOK /\ AnswersOK
       /\ PlacedOK /\ OnePlace /\ NoneTwice /\ ShownOK

-----------------------------------------------------------------------------
(* Sequences, and the two Threads.                                         *)

LEMMA OtherFacts ==
  ASSUME NEW t \in Threads
  PROVE  /\ Other(t) \in Threads /\ Other(t) # t /\ Other(Other(t)) = t
         /\ \A u \in Threads : u = t \/ u = Other(t)
  <1>1. PICK a, b \in Threads : a # b /\ Threads = {a, b}
    BY PeerConstants
  <1>2. \E u \in Threads : u # t
    BY <1>1
  <1>3. Other(t) \in Threads /\ Other(t) # t
    BY <1>2 DEF Other
  <1>4. Other(Other(t)) \in Threads /\ Other(Other(t)) # Other(t)
    BY <1>3 DEF Other
  <1> QED
    BY <1>1, <1>3, <1>4

LEMMA PromptFacts ==
  /\ NoPrompt \in Prompts /\ OwnTurn \in Prompts /\ NoPrompt # OwnTurn
  /\ ~IsPeer(NoPrompt) /\ ~IsPeer(OwnTurn)
  /\ \A p : IsPeer(p) => p # NoPrompt /\ p # OwnTurn
  BY PeerConstants DEF NoPrompt, OwnTurn, Prompt, Prompts, IsPeer

LEMMA NewPrompt ==
  ASSUME NEW m \in Msgs, NEW n \in 0..MaxPairs, NEW r \in BOOLEAN
  PROVE  /\ Prompt(m, n, r) \in Prompts /\ IsPeer(Prompt(m, n, r))
         /\ Prompt(m, n, r).msg = m /\ Prompt(m, n, r).pair = n
         /\ Prompt(m, n, r).reply = r
  BY PeerConstants DEF Prompt, Prompts, IsPeer

LEMMA AppendHas ==
  ASSUME NEW q \in Seq(Prompts), NEW p \in Prompts, NEW T
  PROVE  /\ Append(q, p) \in Seq(Prompts)
         /\ \A x : Has(Append(q, p), x) <=> Has(q, x) \/ x = p
         /\ NoTwice(q, T) /\ (\A x : Has(q, x) => x.msg # p.msg \/ p.msg \in T)
              => NoTwice(Append(q, p), T)
  <1> DEFINE a == Append(q, p)
  <1>1. /\ a \in Seq(Prompts) /\ Len(q) \in Nat /\ DOMAIN q = 1..Len(q)
        /\ DOMAIN a = 1..(Len(q) + 1) /\ a[Len(q) + 1] = p
        /\ \A i \in 1..Len(q) : a[i] = q[i]
    OBVIOUS
  <1> HIDE DEF a
  <1>2. \A x : Has(a, x) <=> Has(q, x) \/ x = p
    <2>1. \A i \in DOMAIN a : i \in DOMAIN q \/ i = Len(q) + 1
      BY <1>1
    <2>2. DOMAIN q \subseteq DOMAIN a /\ Len(q) + 1 \in DOMAIN a
      BY <1>1
    <2> QED
      BY <1>1, <2>1, <2>2 DEF Has
  <1>3. ASSUME NoTwice(q, T),
               \A x : Has(q, x) => x.msg # p.msg \/ p.msg \in T
        PROVE  NoTwice(a, T)
    <2> SUFFICES ASSUME NEW i \in DOMAIN a, NEW j \in DOMAIN a,
                        a[i].msg = a[j].msg
                 PROVE  i = j \/ a[i].msg \in T
      BY DEF NoTwice
    <2>1. \A n \in DOMAIN q : /\ a[n] = q[n]
                              /\ a[n].msg # p.msg \/ p.msg \in T
      BY <1>1, <1>3 DEF Has
    <2>2. \A n \in DOMAIN a : n \in DOMAIN q \/ (n = Len(q) + 1 /\ a[n] = p)
      BY <1>1
    <2>3. CASE i \in DOMAIN q /\ j \in DOMAIN q
      <3>1. a[i] = q[i] /\ a[j] = q[j]
        BY <2>1, <2>3
      <3>2. q[i].msg = q[j].msg
        BY <3>1
      <3>3. i = j \/ q[i].msg \in T
        BY <1>3, <2>3, <3>2 DEF NoTwice
      <3> QED
        BY <3>1, <3>3
    <2>4. CASE ~(i \in DOMAIN q /\ j \in DOMAIN q)
      BY <2>1, <2>2, <2>4
    <2> QED
      BY <2>3, <2>4
  <1> QED
    BY <1>1, <1>2, <1>3 DEF a

LEMMA FrontHas ==
  ASSUME NEW q \in Seq(Prompts), NEW p \in Prompts, NEW T
  PROVE  /\ <<p>> \o q \in Seq(Prompts)
         /\ \A x : Has(<<p>> \o q, x) <=> Has(q, x) \/ x = p
         /\ NoTwice(q, T) /\ (\A x : Has(q, x) => x.msg # p.msg \/ p.msg \in T)
              => NoTwice(<<p>> \o q, T)
  <1> DEFINE a == <<p>> \o q
  <1>1. /\ a \in Seq(Prompts) /\ Len(q) \in Nat /\ DOMAIN q = 1..Len(q)
        /\ DOMAIN a = 1..(Len(q) + 1) /\ a[1] = p
        /\ \A i \in 1..Len(q) : a[i + 1] = q[i]
    OBVIOUS
  <1> HIDE DEF a
  <1>2. \A n \in DOMAIN a : n = 1 \/ (n - 1 \in DOMAIN q /\ a[n] = q[n - 1])
    BY <1>1
  <1>3. \A x : Has(a, x) <=> Has(q, x) \/ x = p
    <2>1. ASSUME NEW x, Has(q, x)
          PROVE  Has(a, x)
      <3>1. PICK i \in 1..Len(q) : q[i] = x
        BY <1>1, <2>1 DEF Has
      <3>2. i + 1 \in DOMAIN a /\ a[i + 1] = x
        BY <1>1, <3>1
      <3> QED
        BY <3>2 DEF Has
    <2>2. Has(a, p)
      <3>1. 1 \in DOMAIN a
        BY <1>1
      <3> QED
        BY <1>1, <3>1 DEF Has
    <2>3. ASSUME NEW x, Has(a, x)
          PROVE  Has(q, x) \/ x = p
      <3>1. PICK n \in DOMAIN a : a[n] = x
        BY <2>3 DEF Has
      <3> QED
        BY <1>1, <1>2, <3>1 DEF Has
    <2> QED
      BY <2>1, <2>2, <2>3
  <1>4. ASSUME NoTwice(q, T),
               \A x : Has(q, x) => x.msg # p.msg \/ p.msg \in T
        PROVE  NoTwice(a, T)
    <2> SUFFICES ASSUME NEW i \in DOMAIN a, NEW j \in DOMAIN a,
                        a[i].msg = a[j].msg
                 PROVE  i = j \/ a[i].msg \in T
      BY DEF NoTwice
    <2>1. \A n \in DOMAIN q : q[n].msg # p.msg \/ p.msg \in T
      BY <1>4 DEF Has
    <2>2. (i = 1 <=> j = 1) \/ a[i].msg \in T
      BY <1>1, <1>2, <2>1
    <2>3. i # 1 /\ j # 1 => i - 1 = j - 1 \/ a[i].msg \in T
      BY <1>2, <1>4 DEF NoTwice
    <2>4. i \in Int /\ j \in Int
      BY <1>1
    <2> QED
      BY <2>2, <2>3, <2>4
  <1> QED
    BY <1>1, <1>3, <1>4 DEF a

LEMMA TailHas ==
  ASSUME NEW q \in Seq(Prompts), NEW T, q # <<>>
  PROVE  /\ Head(q) \in Prompts /\ Tail(q) \in Seq(Prompts)
         /\ \A x : Has(q, x) <=> Has(Tail(q), x) \/ x = Head(q)
         /\ NoTwice(q, T) =>
              /\ NoTwice(Tail(q), T)
              /\ \A x : Has(Tail(q), x) =>
                          x.msg # Head(q).msg \/ x.msg \in T
  <1> DEFINE a == Tail(q)
             h == Head(q)
  <1>1. /\ a \in Seq(Prompts) /\ Len(q) \in Nat \ {0} /\ DOMAIN q = 1..Len(q)
        /\ DOMAIN a = 1..(Len(q) - 1) /\ q[1] = h /\ h \in Prompts
        /\ \A i \in 1..(Len(q) - 1) : a[i] = q[i + 1]
    OBVIOUS
  <1> HIDE DEF a, h
  <1>2. 1 \in DOMAIN q /\ \A i \in DOMAIN a : i + 1 \in DOMAIN q /\ i + 1 # 1
    BY <1>1
  <1>3. \A n \in DOMAIN q : n = 1 \/ (n - 1 \in DOMAIN a /\ a[n - 1] = q[n])
    BY <1>1
  <1>4. \A x : Has(q, x) <=> Has(a, x) \/ x = h
    <2>1. ASSUME NEW x, Has(a, x)
          PROVE  Has(q, x)
      <3>1. PICK i \in DOMAIN a : a[i] = x
        BY <2>1 DEF Has
      <3>2. i + 1 \in DOMAIN q /\ q[i + 1] = x
        BY <1>1, <3>1
      <3> QED
        BY <3>2 DEF Has
    <2>2. ASSUME NEW x, Has(q, x)
          PROVE  Has(a, x) \/ x = h
      BY <1>1, <1>3, <2>2 DEF Has
    <2>3. Has(q, h)
      BY <1>1, <1>2 DEF Has
    <2> QED
      BY <2>1, <2>2, <2>3
  <1>5. ASSUME NoTwice(q, T)
        PROVE  /\ NoTwice(a, T)
               /\ \A x : Has(a, x) => x.msg # h.msg \/ x.msg \in T
    <2>1. \A i, j \in DOMAIN a :
            a[i].msg = a[j].msg => i + 1 = j + 1 \/ a[i].msg \in T
      BY <1>1, <1>2, <1>5 DEF NoTwice
    <2>2. DOMAIN a \subseteq Int
      BY <1>1
    <2>3. NoTwice(a, T)
      BY <2>1, <2>2 DEF NoTwice
    <2>4. ASSUME NEW i \in DOMAIN a
          PROVE  a[i].msg # h.msg \/ a[i].msg \in T
      <3>1. a[i] = q[i + 1]
        BY <1>1
      <3> QED
        BY <1>1, <1>2, <1>5, <3>1 DEF NoTwice
    <2> QED
      BY <2>3, <2>4 DEF Has
  <1> QED
    BY <1>1, <1>4, <1>5 DEF a, h

LEMMA RemoveHas ==
  ASSUME NEW q \in Seq(Prompts), NEW i \in DOMAIN q, NEW T, NoTwice(q, T)
  PROVE  /\ q[i] \in Prompts /\ RemoveAt(q, i) \in Seq(Prompts)
         /\ \A x : Has(q, x) <=> Has(RemoveAt(q, i), x) \/ x = q[i]
         /\ NoTwice(RemoveAt(q, i), T)
         /\ \A x : Has(RemoveAt(q, i), x) =>
                     x.msg # q[i].msg \/ x.msg \in T
  <1> DEFINE l == SubSeq(q, 1, i - 1)
             r == SubSeq(q, i + 1, Len(q))
             a == l \o r
             From(n) == IF n < i THEN n ELSE n + 1
  <1>1. i \in 1..Len(q) /\ Len(q) \in Nat /\ DOMAIN q = 1..Len(q) /\ q[i] \in Prompts
    OBVIOUS
  <1>2. /\ l \in Seq(Prompts) /\ Len(l) = i - 1
        /\ \A n \in 1..(i - 1) : l[n] = q[n]
    BY <1>1, SubSeqProperties
  <1>3. /\ r \in Seq(Prompts) /\ Len(r) = Len(q) - i
        /\ \A n \in 1..(Len(q) - i) : r[n] = q[i + n]
    BY <1>1, SubSeqProperties, SMTT(30)
  <1> HIDE DEF l, r
  <1>4. /\ a \in Seq(Prompts) /\ Len(a) = Len(l) + Len(r)
        /\ \A n \in 1..(Len(l) + Len(r)) :
             a[n] = IF n <= Len(l) THEN l[n] ELSE r[n - Len(l)]
    BY <1>2, <1>3, ConcatProperties
  <1>5. RemoveAt(q, i) = a
    BY DEF RemoveAt, a, l, r
  <1>6. DOMAIN a = 1..(Len(q) - 1)
    <2>1. Len(a) = Len(q) - 1
      BY <1>1, <1>2, <1>3, <1>4
    <2>2. DOMAIN a = 1..Len(a)
      BY <1>4
    <2> QED
      BY <2>1, <2>2
  <1> HIDE DEF a
  <1>7. ASSUME NEW n \in 1..(Len(q) - 1)
        PROVE  a[n] = q[From(n)] /\ From(n) \in DOMAIN q /\ From(n) # i
    <2>1. n \in 1..(Len(l) + Len(r))
      BY <1>1, <1>2, <1>3
    <2>2. CASE n < i
      BY <1>1, <1>2, <1>4, <2>1, <2>2
    <2>3. CASE ~(n < i)
      <3>1. n - Len(l) \in 1..(Len(q) - i) /\ i + (n - Len(l)) = n + 1
            /\ ~(n <= Len(l))
        BY <1>1, <1>2, <2>3
      <3>2. a[n] = r[n - Len(l)]
        BY <1>4, <2>1, <3>1
      <3>3. a[n] = q[n + 1]
        BY <1>3, <3>1, <3>2
      <3> QED
        BY <1>1, <2>3, <3>3
    <2> QED
      BY <2>2, <2>3
  <1>8. ASSUME NEW j \in DOMAIN q, j # i
        PROVE  \E n \in 1..(Len(q) - 1) : From(n) = j
    <2>1. CASE j < i
      BY <1>1, <2>1
    <2>2. CASE ~(j < i)
      <3>1. j - 1 \in 1..(Len(q) - 1) /\ From(j - 1) = j
        BY <1>1, <1>8, <2>2
      <3> QED
        BY <3>1
    <2> QED
      BY <2>1, <2>2
  <1>9. \A n, k \in 1..(Len(q) - 1) : From(n) = From(k) => n = k
    BY <1>1
  <1> HIDE DEF From
  <1>10. \A x : Has(q, x) <=> Has(a, x) \/ x = q[i]
    <2>1. ASSUME NEW x, Has(q, x), x # q[i]
          PROVE  Has(a, x)
      <3>1. PICK j \in DOMAIN q : q[j] = x /\ j # i
        BY <2>1 DEF Has
      <3>2. PICK n \in 1..(Len(q) - 1) : From(n) = j
        BY <1>8, <3>1
      <3> QED
        BY <1>6, <1>7, <3>1, <3>2 DEF Has
    <2>2. \A x : Has(a, x) => Has(q, x)
      BY <1>6, <1>7 DEF Has
    <2> QED
      BY <2>1, <2>2 DEF Has
  <1>11. NoTwice(a, T)
    BY <1>6, <1>7, <1>9 DEF NoTwice
  <1>12. \A x : Has(a, x) => x.msg # q[i].msg \/ x.msg \in T
    BY <1>6, <1>7 DEF NoTwice, Has
  <1> QED
    BY <1>1, <1>4, <1>5, <1>10, <1>11, <1>12

-----------------------------------------------------------------------------
(* The pair's record.                                                      *)

LEMMA Bounds ==
  /\ Limit \in Nat /\ 2 <= Limit /\ MaxPairs \in Nat /\ MaxAllow \in Nat
  /\ MaxRevokes \in Nat /\ Keep \in Nat \ {0} /\ None \notin Msgs
  BY PeerConstants

LEMMA BookFields ==
  ASSUME NEW b \in Book
  PROVE  /\ b.used \in Nat /\ b.used <= Limit /\ b.id \in 0..MaxPairs
         /\ b.allowance \in 0..MaxAllow /\ b.list \in Seq(Msgs)
         /\ b.held \in Msgs \cup {None}
         /\ b.msg \in [Msgs -> [status : Statuses, from : Threads,
                               allowance : 0..MaxAllow]]
  BY Bounds DEF Book

LEMMA OwedFinite ==
  ASSUME NEW b \in Book
  PROVE  /\ IsFiniteSet(ToSet(b.list)) /\ ToSet(b.list) \subseteq Msgs
         /\ IsFiniteSet(Owed(b)) /\ Cardinality(Owed(b)) \in Nat
  <1> DEFINE l == b.list
             f == [i \in 1..Len(l) |-> l[i]]
  <1>1. l \in Seq(Msgs)
    BY DEF Book
  <1> HIDE DEF l
  <1>2. Len(l) \in Nat /\ DOMAIN l = 1..Len(l) /\ \A i \in 1..Len(l) : l[i] \in Msgs
    BY <1>1
  <1>3. f \in Surjection(1..Len(l), ToSet(l))
    BY <1>2 DEF ToSet, Surjection
  <1>4. IsFiniteSet(1..Len(l))
    BY <1>2, FS_Interval
  <1>5. IsFiniteSet(ToSet(l))
    BY <1>3, <1>4, FS_Surjection
  <1>6. Owed(b) \in SUBSET ToSet(l)
    BY DEF Owed, l
  <1> HIDE DEF f
  <1>7. IsFiniteSet(Owed(b))
    BY <1>5, <1>6, FS_Subset
  <1>8. ToSet(l) \subseteq Msgs
    BY <1>2 DEF ToSet
  <1> QED
    BY <1>5, <1>7, <1>8, FS_CardinalityType DEF l

LEMMA OwedSubset ==
  ASSUME NEW b \in Book, NEW T \in SUBSET Owed(b)
  PROVE  /\ IsFiniteSet(T) /\ Cardinality(T) \in Nat
         /\ Cardinality(T) <= Cardinality(Owed(b))
  BY OwedFinite, FS_Subset, FS_CardinalityType

LEMMA RefundFacts ==
  ASSUME NEW b \in Book, NEW m \in Msgs
  PROVE  /\ Refund(b, m) \in 0..2
         /\ m \in ToSet(b.list) /\ Refund(b, m) # 0 => m \in Owed(b)
  BY DEF Refund, Owed, Ongoing

\* More messages may be exempt.
LEMMA BookMono ==
  ASSUME NEW T, NEW U, T \subseteq U, NEW b, BookOK(b, T)
  PROVE  BookOK(b, U)
  BY DEF BookOK, Cleared

\* What ends leaves the set of what is owed, and gives back no more than it was
\* counted for.
LEMMA AllEndedOK ==
  ASSUME tangled \subseteq Msgs, NEW b, BookOK(b, tangled),
         NEW E \in SUBSET ToSet(b.list), NEW st \in Ends,
         \A m \in E : b.msg[m].status # "held"
  PROVE  LET a == AllEnded(b, E, st)
         IN  /\ BookOK(a, tangled) /\ a.list = b.list /\ a.id = b.id /\ a.state = b.state
             /\ a.held = b.held /\ a.allowance = b.allowance /\ a.linked = b.linked
             /\ \A m \in Msgs :
                  /\ a.msg[m].from = b.msg[m].from
                  /\ a.msg[m].status = IF m \in E THEN st ELSE b.msg[m].status
  <1> DEFINE a == AllEnded(b, E, st)
             Gives(n) == {m \in E : Refund(b, m) = n}
             g == Cardinality(Gives(2))
             h == Cardinality(Gives(1))
             c == Cardinality(Owed(b))
             back == 2 * g + h
             used == IF back > b.used THEN 0 ELSE b.used - back
             msg == [m \in Msgs |-> IF m \in E THEN [b.msg[m] EXCEPT !.status = st]
                                    ELSE b.msg[m]]
  <1>1. b \in Book /\ E \subseteq Msgs
    BY OwedFinite DEF BookOK
  <1>2. Gives(1) \in SUBSET Owed(b) /\ Gives(2) \in SUBSET Owed(b)
    BY <1>1, RefundFacts
  <1>3. Gives(1) \cap Gives(2) = {}
    OBVIOUS
  <1>4. /\ Owed(b) \in SUBSET Msgs /\ b.used \in Nat /\ b.used <= Limit
        /\ Limit \in Nat /\ c \in Nat /\ (Cleared(b, tangled) => 2 * c <= b.used)
    <2>1. Owed(b) \in SUBSET Msgs /\ c \in Nat
      BY <1>1, OwedFinite DEF Owed
    <2>2. Cleared(b, tangled) => 2 * c <= b.used
      BY DEF BookOK
    <2> QED
      BY <1>1, <2>1, <2>2, BookFields, Bounds
  <1>5. IsFiniteSet(Gives(1)) /\ IsFiniteSet(Gives(2)) /\ g \in Nat /\ h \in Nat
    BY <1>1, <1>2, OwedSubset
  <1>6. a = [b EXCEPT !.used = used, !.msg = msg]
    BY DEF AllEnded
  <1>7. /\ a.list = b.list /\ a.id = b.id /\ a.state = b.state /\ a.held = b.held
        /\ a.allowance = b.allowance /\ a.linked = b.linked
        /\ a.used = used /\ a.msg = msg
        /\ DOMAIN a = DOMAIN b
    BY <1>1, <1>6 DEF Book
  <1>8. st \in Statuses /\ st \notin {"none", "gone", "held"} /\ st \notin Ongoing
        /\ st # "replied"
    BY DEF Ends, Final, Statuses, Ongoing
  <1>9. \A m \in Msgs : /\ msg[m].from = b.msg[m].from
                        /\ msg[m].allowance = b.msg[m].allowance
                        /\ msg[m].status = IF m \in E THEN st ELSE b.msg[m].status
    BY <1>1 DEF Book
  <1>10. msg \in [Msgs -> [status : Statuses, from : Threads,
                           allowance : 0..MaxAllow]]
    BY <1>1, <1>8 DEF Book
  <1>11. Owed(a) \in SUBSET (Owed(b) \ (Gives(1) \cup Gives(2)))
    <2> HIDE DEF a, msg, used
    <2>1. \A m : m \in Owed(a) <=>
            /\ m \in ToSet(b.list) /\ msg[m].allowance = b.allowance
            /\ msg[m].status \in Ongoing \cup {"replied"}
      BY <1>7 DEF Owed
    <2>2. ToSet(b.list) \subseteq Msgs
      BY <1>1, OwedFinite
    <2>3. ASSUME NEW m \in Owed(a)
          PROVE  m \in Owed(b) /\ m \notin E
      <3>1. /\ m \in ToSet(b.list) /\ m \in Msgs
            /\ msg[m].allowance = b.allowance
            /\ msg[m].status \in Ongoing \cup {"replied"}
        BY <2>1, <2>2
      <3>2. m \notin E
        BY <1>8, <1>9, <3>1
      <3>3. /\ b.msg[m].allowance = b.allowance
            /\ b.msg[m].status \in Ongoing \cup {"replied"}
        BY <1>9, <3>1, <3>2
      <3> QED
        BY <3>1, <3>2, <3>3 DEF Owed
    <2>4. Gives(1) \subseteq E /\ Gives(2) \subseteq E
      OBVIOUS
    <2> QED
      BY <2>3, <2>4
  <1> DEFINE G == Gives(1) \cup Gives(2)
  <1>12. g + h <= c /\ Cardinality(Owed(a)) <= c - (g + h)
         /\ Cardinality(Owed(a)) \in Nat
    <2> DEFINE A == Gives(1)
               B == Gives(2)
               O == Owed(b)
    <2>1. /\ IsFiniteSet(A) /\ IsFiniteSet(B) /\ A \cap B = {} /\ IsFiniteSet(O)
          /\ A \in SUBSET O /\ B \in SUBSET O
      BY <1>1, <1>2, <1>3, <1>5, OwedFinite
    <2>2. Owed(a) \in SUBSET (O \ (A \cup B))
      BY <1>11
    <2> HIDE DEF A, B, O
    <2>3. Cardinality(A \cap B) = 0
      BY <2>1, FS_EmptySet
    <2>4. IsFiniteSet(A \cup B)
          /\ Cardinality(A \cup B) = Cardinality(A) + Cardinality(B) - 0
      BY <2>1, <2>3, FS_Union
    <2>5. IsFiniteSet(O \ (A \cup B)) /\
          Cardinality(O \ (A \cup B)) = Cardinality(O) - Cardinality(O \cap (A \cup B))
      BY <2>1, FS_Difference
    <2>6. O \cap (A \cup B) = A \cup B
      BY <2>1
    <2>7. IsFiniteSet(Owed(a)) /\ Cardinality(Owed(a)) <= Cardinality(O \ (A \cup B))
          /\ Cardinality(Owed(a)) \in Nat
      BY <2>2, <2>5, FS_Subset, FS_CardinalityType
    <2>8. Cardinality(A) = h /\ Cardinality(B) = g /\ Cardinality(O) = c
      BY DEF A, B, O
    <2>9. Cardinality(O \ (A \cup B)) \in Nat
      BY <2>5, FS_CardinalityType
    <2>10. g \in Nat /\ h \in Nat /\ c \in Nat
      BY <1>4, <1>5
    <2> DEFINE x == Cardinality(Owed(a))
               y == Cardinality(O \ (A \cup B))
               z == Cardinality(A \cup B)
    <2>11. y \in Nat /\ x \in Nat /\ x <= y /\ y = c - z /\ z = h + g - 0
      BY <2>4, <2>5, <2>6, <2>7, <2>8, <2>9
    <2> HIDE DEF g, h, c, x, y, z
    <2>12. g + h <= c /\ x <= c - (g + h) /\ x \in Nat
      BY <2>10, <2>11
    <2> QED
      BY <2>12 DEF x
  <1> DEFINE n == Cardinality(Owed(a))
  <1> HIDE DEF Gives, a, g, h, c, n, msg
  <1>13. /\ used \in 0..Limit
         /\ Cleared(b, tangled) => 2 * n <= used
    <2>1. used \in 0..Limit
      BY <1>4, <1>5
    <2>2. ASSUME Cleared(b, tangled)
          PROVE  2 * n <= used
      BY <1>4, <1>5, <1>12, <2>2 DEF n
    <2> QED
      BY <2>1, <2>2
  <1> HIDE DEF used
  <1>14. a \in Book
    BY <1>1, <1>6, <1>10, <1>13 DEF Book
  <1>15. \A m \in ToSet(a.list) : Entry(a, m)
    BY <1>1, <1>7, <1>8, <1>9, OwedFinite DEF Entry, BookOK
  <1>16. a.held # None => a.held \in ToSet(a.list) /\ a.msg[a.held].status = "held"
    BY <1>1, <1>7, <1>9, OwedFinite DEF BookOK
  <1>17. Cleared(a, tangled) => Cleared(b, tangled)
    BY <1>7, <1>9 DEF Cleared
  <1>18. BookOK(a, tangled)
    BY <1>7, <1>13, <1>14, <1>15, <1>16, <1>17 DEF BookOK, n
  <1> QED
    BY <1>7, <1>9, <1>18 DEF a

LEMMA EndedOK ==
  ASSUME tangled \subseteq Msgs, NEW b, BookOK(b, tangled),
         NEW p \in Prompts, NEW st \in Ends,
         Listed(b, p) => b.msg[p.msg].status # "held"
  PROVE  LET a == Ended(b, p, st)
         IN  /\ BookOK(a, tangled) /\ a.list = b.list /\ a.id = b.id /\ a.state = b.state
             /\ a.held = b.held /\ a.allowance = b.allowance /\ a.linked = b.linked
             /\ \A m \in Msgs :
                  /\ a.msg[m].from = b.msg[m].from
                  /\ a.msg[m].status = IF Listed(b, p) /\ m = p.msg THEN st
                                       ELSE b.msg[m].status
  <1>1. CASE ~Listed(b, p)
    BY <1>1 DEF Ended
  <1>2. CASE Listed(b, p)
    <2> DEFINE x == p.msg
               E == {x}
               Gives(n) == Cardinality({m \in E : Refund(b, m) = n})
    <2>1. x \in ToSet(b.list) /\ b \in Book /\ x \in Msgs
      BY <1>2, OwedFinite DEF Listed, BookOK
    <2>2. Refund(b, x) \in 0..2
      BY <2>1, RefundFacts
    <2>3. 2 * Gives(2) + Gives(1) = Refund(b, x)
      <3> HIDE DEF x
      <3>1. \A n : Refund(b, x) = n => {m \in E : Refund(b, m) = n} = {x}
        OBVIOUS
      <3>2. \A n : Refund(b, x) # n => {m \in E : Refund(b, m) = n} = {}
        OBVIOUS
      <3>3. Cardinality({x}) = 1 /\ Cardinality({}) = 0
        BY FS_Singleton, FS_EmptySet
      <3>4. \A n : Gives(n) = IF Refund(b, x) = n THEN 1 ELSE 0
        BY <3>1, <3>2, <3>3
      <3> HIDE DEF Gives
      <3>5. Gives(1) = (IF Refund(b, x) = 1 THEN 1 ELSE 0)
            /\ Gives(2) = (IF Refund(b, x) = 2 THEN 1 ELSE 0)
        BY <3>4
      <3> QED
        BY <2>2, <3>5
    <2>4. Back(b, x) = IF 2 * Gives(2) + Gives(1) > b.used THEN 0
                       ELSE b.used - (2 * Gives(2) + Gives(1))
      BY <2>3 DEF Back
    <2> DEFINE used == Back(b, x)
               msg == [m \in Msgs |-> IF m \in E
                                      THEN [b.msg[m] EXCEPT !.status = st]
                                      ELSE b.msg[m]]
    <2>5. AllEnded(b, E, st) = [b EXCEPT !.used = used, !.msg = msg]
      BY <2>4 DEF AllEnded
    <2>6. msg = [b.msg EXCEPT ![x].status = st]
      BY <2>1 DEF Book
    <2>7. Ended(b, p, st) = [b EXCEPT !.used = used, !.msg = msg]
      <3>1. Ended(b, p, st) = [b EXCEPT !.used = used, !.msg[x].status = st]
        BY <1>2 DEF Ended
      <3> HIDE DEF used, x, msg
      <3> QED
        BY <2>1, <2>6, <3>1 DEF Book
    <2>8. Ended(b, p, st) = AllEnded(b, E, st)
      BY <2>5, <2>7
    <2>9. E \in SUBSET ToSet(b.list) /\ \A m \in E : b.msg[m].status # "held"
      BY <1>2, <2>1
    <2> HIDE DEF E, x, Gives, used, msg
    <2>10. \A m : m \in E <=> m = p.msg
      BY DEF E, x
    <2>11. E \subseteq Msgs
      BY <2>1 DEF E
    <2> DEFINE e == AllEnded(b, E, st)
    <2>12. /\ BookOK(e, tangled) /\ e.list = b.list /\ e.id = b.id /\ e.state = b.state
           /\ e.held = b.held /\ e.allowance = b.allowance
           /\ e.linked = b.linked
           /\ \A m \in Msgs :
                /\ e.msg[m].from = b.msg[m].from
                /\ e.msg[m].status = IF m \in E THEN st ELSE b.msg[m].status
      BY <2>9, AllEndedOK, SMTT(30)
    <2> HIDE DEF e
    <2>13. Ended(b, p, st) = e
      BY <2>8 DEF e
    <2> QED
      BY <1>2, <2>10, <2>12, <2>13, Zenon
  <1> QED
    BY <1>1, <1>2

\* A message moves on within what it is counted for.
LEMMA MovedOK ==
  ASSUME tangled \subseteq Msgs, NEW b, BookOK(b, tangled), NEW p \in Prompts,
         NEW st \in {"working", "replying", "replied"},
         Listed(b, p) =>
           /\ b.msg[p.msg].status # "held"
           /\ p.msg \in tangled \/ b.msg[p.msg].status \in Ongoing
  PROVE  LET a == Moved(b, p, st)
         IN  /\ BookOK(a, tangled) /\ a.list = b.list /\ a.id = b.id /\ a.state = b.state
             /\ a.held = b.held /\ a.allowance = b.allowance /\ a.linked = b.linked
             /\ \A m \in Msgs :
                  /\ a.msg[m].from = b.msg[m].from
                  /\ a.msg[m].status = IF Listed(b, p) /\ m = p.msg THEN st
                                       ELSE b.msg[m].status
  <1>1. CASE ~Listed(b, p)
    BY <1>1 DEF Moved
  <1>2. CASE Listed(b, p)
    <2> DEFINE x == p.msg
               a == Moved(b, p, st)
               msg == [b.msg EXCEPT ![x].status = st]
    <2>1. x \in ToSet(b.list) /\ b \in Book /\ x \in Msgs
          /\ b.msg[x].status # "held"
          /\ (x \in tangled \/ b.msg[x].status \in Ongoing)
      BY <1>2, OwedFinite DEF Listed, BookOK
    <2>2. a = [b EXCEPT !.msg[x].status = st]
      BY <1>2 DEF Moved
    <2> HIDE DEF x, a
    <2>3. st \in Statuses /\ st \notin {"none", "gone", "held"}
      BY DEF Statuses, Ongoing, Final
    <2>4. /\ a.list = b.list /\ a.id = b.id /\ a.state = b.state
          /\ a.held = b.held /\ a.allowance = b.allowance /\ a.linked = b.linked
          /\ a.used = b.used /\ a.msg = msg /\ a \in Book
      <3> DEFINE R == [status : Statuses, from : Threads, allowance : 0..MaxAllow]
      <3>1. b.msg \in [Msgs -> R] /\ b.msg[x] \in R
        BY <2>1, BookFields
      <3>2. msg = [b.msg EXCEPT ![x] = [b.msg[x] EXCEPT !.status = st]]
        OBVIOUS
      <3>3. [b.msg[x] EXCEPT !.status = st] \in R
        BY <2>3, <3>1
      <3>4. msg \in [Msgs -> R]
        BY <3>1, <3>2, <3>3
      <3>5. a = [b EXCEPT !.msg = msg]
        BY <2>1, <2>2 DEF Book
      <3> HIDE DEF msg
      <3> QED
        BY <2>1, <3>4, <3>5 DEF Book
    <2>5. \A m \in Msgs : /\ msg[m].from = b.msg[m].from
                          /\ msg[m].allowance = b.msg[m].allowance
                          /\ msg[m].status = IF m = x THEN st
                                             ELSE b.msg[m].status
      BY <2>1 DEF Book
    <2> HIDE DEF msg
    <2>6. ASSUME Cleared(a, tangled)
          PROVE  /\ Cleared(b, tangled) /\ Owed(a) \in SUBSET Owed(b)
      <3>1. Cleared(b, tangled)
        BY <2>4, <2>5, <2>6 DEF Cleared
      <3>2. x \in tangled => b.msg[x].allowance # b.allowance
        BY <3>1 DEF Cleared
      <3> QED
        BY <2>1, <2>4, <2>5, <3>1, <3>2, OwedFinite DEF Owed
    <2>7. ASSUME Cleared(a, tangled)
          PROVE  /\ Cardinality(Owed(a)) <= Cardinality(Owed(b))
                 /\ Cardinality(Owed(a)) \in Nat /\ Cardinality(Owed(b)) \in Nat
      <3>1. Owed(a) \in SUBSET Owed(b)
        BY <2>6, <2>7
      <3> QED
        BY <2>1, <3>1, OwedSubset, OwedFinite
    <2>8. ASSUME Cleared(a, tangled)
          PROVE  2 * Cardinality(Owed(a)) <= a.used
      <3>1. b.used \in Nat /\ 2 * Cardinality(Owed(b)) <= b.used
        BY <2>1, <2>6, <2>8, PeerConstants DEF BookOK, Book
      <3> QED
        BY <2>4, <2>7, <2>8, <3>1
    <2>9. \A m \in ToSet(a.list) : Entry(a, m)
      BY <2>1, <2>3, <2>4, <2>5, OwedFinite DEF Entry, BookOK
    <2>10. a.held # None => a.held \in ToSet(a.list) /\ a.msg[a.held].status = "held"
      BY <2>1, <2>4, <2>5, OwedFinite DEF BookOK, Ongoing
    <2>11. BookOK(a, tangled)
      BY <2>4, <2>8, <2>9, <2>10 DEF BookOK
    <2> QED
      BY <1>2, <2>4, <2>5, <2>11 DEF a, x
  <1> QED
    BY <1>1, <1>2

LEMMA DroppedOK ==
  ASSUME tangled \subseteq Msgs, NEW b, BookOK(b, tangled)
  PROVE  LET a == Dropped(b)
         IN  /\ BookOK(a, tangled) /\ a.list = <<>> /\ a.id = b.id /\ a.held = None
             /\ \A m \in Msgs :
                  /\ a.msg[m].from = b.msg[m].from
                  /\ a.msg[m].status = IF b.msg[m].status = "none" THEN "none"
                                       ELSE "gone"
  <1> DEFINE a == Dropped(b)
             msg == [m \in Msgs |-> IF b.msg[m].status = "none" THEN b.msg[m]
                                    ELSE [b.msg[m] EXCEPT !.status = "gone",
                                                          !.allowance = 0]]
  <1>1. b \in Book
    BY DEF BookOK
  <1>2. msg \in [Msgs -> [status : Statuses, from : Threads,
                          allowance : 0..MaxAllow]]
        /\ \A m \in Msgs :
             /\ msg[m].from = b.msg[m].from
             /\ msg[m].status = IF b.msg[m].status = "none" THEN "none" ELSE "gone"
    <2>1. 0 \in 0..MaxAllow /\ "gone" \in Statuses
      BY Bounds DEF Statuses
    <2>2. \A m \in Msgs :
            b.msg[m] \in [status : Statuses, from : Threads, allowance : 0..MaxAllow]
      BY <1>1 DEF Book
    <2> QED
      BY <2>1, <2>2
  <1>3. a = [b EXCEPT !.state = "none", !.linked = FALSE, !.used = 0,
                      !.allowance = 0, !.held = None, !.list = <<>>, !.msg = msg]
    BY DEF Dropped
  <1> HIDE DEF msg, a
  <1>4. /\ a.list = <<>> /\ a.id = b.id /\ a.held = None /\ a.state = "none"
        /\ a.used = 0 /\ a.msg = msg /\ a \in Book
    <2>1. 0 \in 0..Limit /\ 0 \in 0..MaxAllow /\ FALSE \in BOOLEAN
      BY Bounds
    <2> DEFINE e == <<>>
    <2>2. e \in Seq(Msgs)
      OBVIOUS
    <2> HIDE DEF e
    <2>3. a = [b EXCEPT !.state = "none", !.linked = FALSE, !.used = 0,
                        !.allowance = 0, !.held = None, !.list = e, !.msg = msg]
      BY <1>3 DEF e
    <2>4. /\ a.list = e /\ a.id = b.id /\ a.held = None /\ a.state = "none"
          /\ a.used = 0 /\ a.msg = msg /\ a \in Book
      BY <1>1, <1>2, <2>1, <2>2, <2>3 DEF Book
    <2> QED
      BY <2>4 DEF e
  <1>5. ToSet(a.list) = {}
    BY <1>4 DEF ToSet
  <1>6. Owed(a) = {}
    BY <1>5 DEF Owed
  <1>7. 2 * Cardinality(Owed(a)) <= a.used
    BY <1>4, <1>6, FS_EmptySet
  <1>8. BookOK(a, tangled)
    <2>1. DOMAIN a.list = {}
      BY <1>4
    <2> QED
      BY <1>4, <1>5, <1>7, <2>1 DEF BookOK
  <1> QED
    BY <1>2, <1>4, <1>8 DEF a

\* Of the sequence s that gets m, the oldest is dropped when it is too long.
LEMMA ListedNext ==
  ASSUME NEW s \in Seq(Msgs), NEW m \in Msgs, m \notin ToSet(s),
         \A i, j \in DOMAIN s : s[i] = s[j] => i = j
  PROVE  LET all == Append(s, m)
             over == Len(all) > Keep
             l == IF over THEN Tail(all) ELSE all
         IN  /\ l \in Seq(Msgs) /\ m \in ToSet(l) /\ ToSet(l) \subseteq ToSet(s) \cup {m}
             /\ \A i, j \in DOMAIN l : l[i] = l[j] => i = j
             /\ over => Head(all) \notin ToSet(l) /\ Head(all) # m
  <1> DEFINE all == Append(s, m)
             over == Len(all) > Keep
             n == Len(s)
  <1>1. /\ n \in Nat /\ DOMAIN s = 1..n /\ all \in Seq(Msgs) /\ Len(all) = n + 1
        /\ DOMAIN all = 1..(n + 1) /\ all[n + 1] = m
        /\ \A i \in 1..n : all[i] = s[i]
    OBVIOUS
  <1>2. \A i \in 1..n : s[i] # m /\ s[i] \in ToSet(s)
    BY <1>1 DEF ToSet
  <1>3. \A i, j \in 1..(n + 1) : all[i] = all[j] => i = j
    <2>1. \A i \in 1..(n + 1) : i \in 1..n \/ i = n + 1
      BY <1>1
    <2> QED
      BY <1>1, <1>2, <2>1
  <1>4. \A x \in ToSet(all) : x \in ToSet(s) \/ x = m
    <2>1. \A i \in 1..(n + 1) : i \in 1..n \/ i = n + 1
      BY <1>1
    <2> QED
      BY <1>1, <1>2, <2>1 DEF ToSet
  <1>5. n + 1 \in 1..(n + 1)
    BY <1>1
  <1> HIDE DEF all
  <1>6. CASE ~over
    <2>1. m \in ToSet(all)
      BY <1>1, <1>5 DEF ToSet
    <2> HIDE DEF over
    <2> QED
      BY <1>1, <1>3, <1>4, <1>6, <2>1 DEF all, over
  <1>7. CASE over
    <2> DEFINE l == Tail(all)
               h == Head(all)
    <2>1. n # 0 /\ all # <<>>
      BY <1>1, <1>7, Bounds
    <2>2. /\ l \in Seq(Msgs) /\ DOMAIN l = 1..n /\ h = all[1]
          /\ \A i \in 1..n : l[i] = all[i + 1]
      BY <1>1, <2>1
    <2> HIDE DEF l, h
    <2>3. \A i \in 1..n : i + 1 \in 1..(n + 1) /\ 1 \in 1..(n + 1) /\ i + 1 # 1
      BY <1>1
    <2>4. n \in 1..n
      BY <1>1, <2>1
    <2>5. m \in ToSet(l)
      BY <1>1, <2>2, <2>4 DEF ToSet
    <2>6. ToSet(l) \subseteq ToSet(all)
      BY <1>1, <2>2, <2>3 DEF ToSet
    <2>7. \A i, j \in 1..n : l[i] = l[j] => i + 1 = j + 1
      BY <1>3, <2>2, <2>3
    <2>8. \A i, j \in 1..n : i + 1 = j + 1 => i = j
      OBVIOUS
    <2>9. h \notin ToSet(l)
      BY <1>3, <2>2, <2>3 DEF ToSet
    <2>10. h # m
      BY <2>5, <2>9
    <2> HIDE DEF over
    <2>11. l \in Seq(Msgs) /\ \A i, j \in DOMAIN l : l[i] = l[j] => i = j
      BY <2>2, <2>7, <2>8
    <2>12. ToSet(l) \subseteq ToSet(s) \cup {m}
      BY <1>4, <2>6
    <2> QED
      BY <1>7, <2>5, <2>9, <2>10, <2>11, <2>12 DEF all, over, l, h
  <1> QED
    BY <1>6, <1>7

\* A message that joins the list, the pair's other fields with it.
Recorded(b, m, t, st, al, u, h) ==
  [Listing(b, m, t, st, al) EXCEPT !.used = u, !.held = h]

LEMMA ListingOK ==
  ASSUME tangled \subseteq Msgs, NEW b, BookOK(b, tangled),
         NEW m \in Msgs, m \notin tangled, b.msg[m].status = "none",
         NEW t \in Threads, NEW st \in {"held", "queued"}, NEW al \in 0..MaxAllow,
         al <= b.allowance, b.held = None, b.state \in {"pending", "allowed"},
         NEW u \in 0..Limit, u = IF st = "held" THEN b.used ELSE b.used + 2,
         NEW held, held = IF st = "held" THEN m ELSE None
  PROVE  LET a == Recorded(b, m, t, st, al, u, held)
         IN  /\ BookOK(a, tangled) /\ a.id = b.id
             /\ a.msg[m].status = st /\ a.msg[m].from = t
             /\ \A x \in Msgs \ {m} :
                  /\ a.msg[x].from = b.msg[x].from
                  /\ x \in ToSet(a.list) => x \in ToSet(b.list)
                  /\ a.msg[x].status # b.msg[x].status =>
                       a.msg[x].status = "gone" /\ x \notin ToSet(a.list)
  <1> DEFINE all == Append(b.list, m)
             over == Len(all) > Keep
             l == IF over THEN Tail(all) ELSE all
             h == Head(all)
             msg == [x \in Msgs |->
                       IF x = m THEN [status |-> st, from |-> t, allowance |-> al]
                       ELSE IF over /\ x = h
                            THEN [b.msg[x] EXCEPT !.status = "gone"]
                            ELSE b.msg[x]]
             a == Recorded(b, m, t, st, al, u, held)
  <1>1. b \in Book
    BY DEF BookOK
  <1>2. /\ b.list \in Seq(Msgs) /\ b.used \in Nat /\ b.allowance \in 0..MaxAllow
        /\ b.msg \in [Msgs -> [status : Statuses, from : Threads,
                               allowance : 0..MaxAllow]]
    BY <1>1, BookFields
  <1>3. m \notin ToSet(b.list)
    BY DEF BookOK, Entry
  <1>4. /\ l \in Seq(Msgs) /\ m \in ToSet(l) /\ ToSet(l) \subseteq ToSet(b.list) \cup {m}
        /\ \A i, j \in DOMAIN l : l[i] = l[j] => i = j
        /\ over => h \notin ToSet(l) /\ h # m
    BY <1>2, <1>3, ListedNext DEF BookOK
  <1>5. Listing(b, m, t, st, al) = [b EXCEPT !.list = l, !.msg = msg]
    BY DEF Listing
  <1> HIDE DEF all, over, l, h
  <1>6. st \in Statuses /\ "gone" \in Statuses
    BY DEF Statuses, Ongoing
  <1>7. msg \in [Msgs -> [status : Statuses, from : Threads,
                          allowance : 0..MaxAllow]]
    BY <1>2, <1>6
  <1>8. /\ msg[m].status = st /\ msg[m].from = t /\ msg[m].allowance = al
        /\ \A x \in Msgs \ {m} :
             /\ msg[x].from = b.msg[x].from
             /\ msg[x].allowance = b.msg[x].allowance
             /\ x \in ToSet(l) => msg[x].status = b.msg[x].status
             /\ msg[x].status # b.msg[x].status =>
                  msg[x].status = "gone" /\ x \notin ToSet(l)
    BY <1>2, <1>4
  <1> HIDE DEF msg
  <1>9. held \in Msgs \cup {None}
    OBVIOUS
  <1>10. /\ a.list = l /\ a.msg = msg /\ a.used = u /\ a.held = held /\ a.id = b.id
         /\ a.state = b.state /\ a.allowance = b.allowance /\ a \in Book
    BY <1>1, <1>4, <1>5, <1>7, <1>9 DEF Book, Recorded
  <1> HIDE DEF a
  <1>11. \A x \in Msgs : x # None
    BY Bounds
  <1>12. ToSet(b.list) \subseteq Msgs /\ ToSet(l) \subseteq Msgs
    BY <1>1, <1>4, OwedFinite
  <1>13. \A x \in ToSet(a.list) : Entry(a, x)
    <2>1. Entry(a, m)
      BY <1>8, <1>10 DEF Entry
    <2>2. ASSUME NEW x \in ToSet(a.list), x # m
          PROVE  Entry(a, x)
      <3>1. x \in ToSet(b.list) /\ x \in Msgs /\ Entry(b, x)
        BY <1>4, <1>10, <1>12, <2>2 DEF BookOK
      <3>2. msg[x].status = b.msg[x].status /\ msg[x].allowance = b.msg[x].allowance
        BY <1>8, <1>10, <2>2, <3>1
      <3> QED
        BY <1>10, <1>11, <3>1, <3>2 DEF Entry
    <2> QED
      BY <2>1, <2>2
  <1>14. a.held # None => a.held \in ToSet(a.list) /\ a.msg[a.held].status = "held"
    BY <1>4, <1>8, <1>10
  <1>15. ASSUME Cleared(a, tangled)
         PROVE  2 * Cardinality(Owed(a)) <= a.used
    <2> DEFINE O == Owed(b)
               N == IF st = "held" THEN O ELSE O \cup {m}
    <2>1. Owed(a) \in SUBSET N
      <3>1. ASSUME NEW x \in Owed(a), x # m
            PROVE  x \in O
        <4>1. x \in ToSet(l) /\ x \in ToSet(b.list) /\ x \in Msgs
          BY <1>4, <1>10, <1>12, <3>1 DEF Owed
        <4>2. msg[x].status = b.msg[x].status /\ msg[x].allowance = b.msg[x].allowance
          BY <1>8, <3>1, <4>1
        <4>3. /\ msg[x].allowance = b.allowance
              /\ msg[x].status \in Ongoing \cup {"replied"}
          BY <1>10, <3>1 DEF Owed
        <4> QED
          BY <4>1, <4>2, <4>3 DEF Owed
      <3>2. m \in Owed(a) => st # "held"
        BY <1>8, <1>10 DEF Owed, Ongoing
      <3> QED
        BY <3>1, <3>2
    <2>2. IsFiniteSet(O) /\ Cardinality(O) \in Nat /\ 2 * Cardinality(O) <= b.used
      <3>1. Cleared(b, tangled)
        BY <1>8, <1>10, <1>15 DEF Cleared
      <3> QED
        BY <1>1, <3>1, OwedFinite DEF BookOK
    <2>3. IsFiniteSet(N) /\ Cardinality(N) \in Nat /\ 2 * Cardinality(N) <= u
      <3>1. CASE st = "held"
        BY <2>2, <3>1
      <3>2. CASE st = "queued"
        <4>1. N = O \cup {m}
          BY <3>2
        <4> HIDE DEF O, N
        <4>2. IsFiniteSet(N) /\ Cardinality(N) \in Nat
              /\ Cardinality(N) <= Cardinality(O) + 1
          <5> DEFINE c == Cardinality(O)
                     d == Cardinality(N)
          <5>1. IsFiniteSet(N) /\ d = IF m \in O THEN c ELSE c + 1
            BY <2>2, <4>1, FS_AddElement
          <5>2. c \in Nat
            BY <2>2
          <5> HIDE DEF c, d
          <5>3. IsFiniteSet(N) /\ d \in Nat /\ d <= c + 1
            BY <5>1, <5>2
          <5> QED
            BY <5>3 DEF c, d
        <4>3. u = b.used + 2
          BY <3>2
        <4> QED
          BY <1>2, <2>2, <4>2, <4>3
      <3> QED
        BY <3>1, <3>2
    <2> HIDE DEF N
    <2>4. Cardinality(Owed(a)) <= Cardinality(N) /\ Cardinality(Owed(a)) \in Nat
      BY <2>1, <2>3, FS_Subset, FS_CardinalityType
    <2> DEFINE x == Cardinality(Owed(a))
               y == Cardinality(N)
    <2>5. x \in Nat /\ y \in Nat /\ x <= y /\ 2 * y <= u /\ u \in Nat
      BY <2>3, <2>4, Bounds
    <2> HIDE DEF x, y
    <2>6. 2 * x <= u
      BY <2>5
    <2> QED
      BY <1>10, <2>6 DEF x
  <1>16. BookOK(a, tangled)
    BY <1>4, <1>10, <1>13, <1>14, <1>15 DEF BookOK
  <1> QED
    BY <1>4, <1>8, <1>10, <1>16 DEF a

\* The record when the owner decides: what was held is not any more.
LEMMA DecidedOK ==
  ASSUME tangled \subseteq Msgs, NEW b, BookOK(b, tangled), NEW a \in Book,
         a.list = b.list, a.held = None, a.state \in {"allowed", "denied"},
         b.allowance <= a.allowance, b.state # "none",
         \A x \in ToSet(b.list) :
           /\ a.msg[x].allowance <= a.allowance
           /\ x # b.held => a.msg[x].status = b.msg[x].status,
         b.held # None => a.msg[b.held].status \in {"queued", "undelivered", "declined"},
         Cleared(a, tangled) => 2 * Cardinality(Owed(a)) <= a.used
  PROVE  BookOK(a, tangled)
  <1>1. ToSet(b.list) \subseteq Msgs
    BY OwedFinite DEF BookOK
  <1>2. \A x \in ToSet(a.list) : Entry(a, x)
    <2> SUFFICES ASSUME NEW x \in ToSet(a.list)
                 PROVE  Entry(a, x)
      OBVIOUS
    <2>1. x \in Msgs /\ Entry(b, x)
      BY <1>1 DEF BookOK
    <2>2. x # None
      BY <2>1, Bounds
    <2> QED
      BY <2>1, <2>2 DEF Entry
  <1> QED
    BY <1>2 DEF BookOK

-----------------------------------------------------------------------------
(* Messages that a step moves, and the others.                             *)

\* Where m is: nowhere, or in one place.
Absent(m) ==
  /\ \A t \in Threads, k \in Kinds, p \in Prompts : At(t, k, p) => p.msg # m
  /\ m \in tangled \/ m \notin ToSet(book.list)
     \/ book.msg[m].status \notin {"queued", "working"}
Alone(m, t, k, p) ==
  /\ p.msg = m /\ At(t, k, p) /\ Fact(t, k, p)
  /\ \A u \in Threads, l \in Kinds, q \in Prompts :
       At(u, l, q) /\ q.msg = m => u = t /\ l = k /\ q = p
Placed(M) ==
  \A m \in M :
    /\ Answers(m)
    /\ \/ Absent(m)
       \/ \E t \in Threads, k \in Kinds, p \in Prompts : Alone(m, t, k, p)

\* A step leaves the places and the records of the messages outside M alone;
\* the pair may forget them.
SamePlaces(M) == \A t \in Threads, k \in Kinds, p \in Prompts :
                   p.msg \notin M => (At(t, k, p)' <=> At(t, k, p))
SameRecords(M) ==
  /\ book.id <= book'.id
  /\ \A m \in Msgs \ M :
       /\ answers'[m] = answers[m] /\ book'.msg[m].from = book.msg[m].from
       /\ m \in tangled' <=> m \in tangled
       /\ m \in ToSet(book'.list) => m \in ToSet(book.list) /\ book'.id = book.id
       /\ book'.msg[m].status # book.msg[m].status =>
            book'.msg[m].status = "gone" /\ m \notin ToSet(book'.list)
  /\ \A m \in M : Known(m) => Known(m)'

\* What becomes tangled, and what the provider gets, is known.
Carries ==
  /\ \A m \in tangled' : m \in tangled \/ Known(m)'
  /\ \A t \in Threads : send'[t].at = "sent" =>
       \/ send[t].at = "sent" /\ send'[t].what = send[t].what
       \/ Known(send[t].what.msg)'

LEMMA Moves ==
  ASSUME Inv, BookOK(book, tangled)', NEW M \in SUBSET Msgs, SamePlaces(M), SameRecords(M), Placed(M)', Carries
  PROVE  KnownOK' /\ AnswersOK' /\ PlacedOK' /\ OnePlace' /\ ShownOK'
  <1>1. /\ book.id \in Int /\ book'.id \in Int /\ book.id <= book'.id
        /\ ToSet(book'.list) \subseteq Msgs
        /\ \A p \in Prompts : p.pair \in Int
    <2>1. book \in Book /\ book' \in Book
      BY DEF Inv, BookOK
    <2>2. book.id \in Int /\ book'.id \in Int
      BY <2>1, BookFields
    <2>3. ToSet(book'.list) \subseteq Msgs
      BY <2>1, OwedFinite
    <2>4. \A p \in Prompts : p.pair \in Int
      BY DEF Prompts
    <2> QED
      BY <2>2, <2>3, <2>4 DEF SameRecords
  <1>2. ASSUME NEW m \in Msgs
        PROVE  Answers(m)'
    <2>1. CASE m \in M
      BY <2>1 DEF Placed
    <2>2. CASE m \notin M
      BY <2>2 DEF SameRecords, Inv, AnswersOK, Answers
    <2> QED
      BY <2>1, <2>2
  <1>3. ASSUME NEW t \in Threads, NEW k \in Kinds, NEW p \in Prompts, At(t, k, p)'
        PROVE  Fact(t, k, p)'
    <2>1. CASE p.msg \in M
      <3>1. p.msg \in Msgs
        BY <2>1
      <3>2. ~Absent(p.msg)'
        BY <1>3 DEF Absent
      <3>3. PICK u \in Threads, l \in Kinds, q \in Prompts : Alone(p.msg, u, l, q)'
        BY <2>1, <3>1, <3>2 DEF Placed
      <3>4. u = t /\ l = k /\ q = p
        BY <1>3, <3>3 DEF Alone
      <3> QED
        BY <3>3, <3>4 DEF Alone
    <2>2. CASE p.msg \notin M
      <3>1. At(t, k, p)
        BY <1>3, <2>2 DEF SamePlaces
      <3>2. Fact(t, k, p)
        BY <3>1 DEF Inv, PlacedOK
      <3>3. p.msg \in Msgs \ M
        BY <2>2, <3>2 DEF Fact, Known
      <3>4. /\ answers'[p.msg] = answers[p.msg]
            /\ book'.msg[p.msg].from = book.msg[p.msg].from
            /\ book'.msg[p.msg].status \notin {"none", "held"}
        BY <3>2, <3>3 DEF SameRecords, Fact, Known
      <3>5. p.pair <= book'.id
        BY <1>1, <3>2 DEF Fact
      <3>6. p.msg \in ToSet(book'.list) =>
              /\ p.msg \in ToSet(book.list) /\ book'.id = book.id
              /\ book'.msg[p.msg].status = book.msg[p.msg].status
        BY <3>3 DEF SameRecords
      <3>7. p.msg \in ToSet(book'.list) => Fits(k, p)'
        BY <3>2, <3>6 DEF Fact, Fits
      <3> QED
        BY <3>2, <3>3, <3>4, <3>5, <3>7 DEF Fact, Known
    <2> QED
      BY <2>1, <2>2
  <1>4. ASSUME NEW t \in Threads, NEW k \in Kinds, NEW l \in Kinds,
               NEW p \in Prompts, NEW q \in Prompts,
               At(t, k, p)', At(t, l, q)', p.msg = q.msg
        PROVE  k = l
    <2>1. CASE p.msg \in M
      <3>1. p.msg \in Msgs
        BY <1>3, <1>4 DEF Fact, Known
      <3>2. ~Absent(p.msg)'
        BY <1>4 DEF Absent
      <3>3. PICK u \in Threads, j \in Kinds, x \in Prompts : Alone(p.msg, u, j, x)'
        BY <2>1, <3>1, <3>2 DEF Placed
      <3> QED
        BY <1>4, <3>3 DEF Alone
    <2>2. CASE p.msg \notin M
      BY <1>4, <2>2 DEF SamePlaces, Inv, OnePlace
    <2> QED
      BY <2>1, <2>2
  <1>5. ASSUME NEW m \in ToSet(book'.list)
        PROVE  Shown(m)'
    <2>1. m \in Msgs
      BY <1>1
    <2>2. CASE m \in M
      <3>1. CASE Absent(m)'
        BY <3>1 DEF Absent, Shown
      <3>2. CASE \E t \in Threads, k \in Kinds, p \in Prompts : Alone(m, t, k, p)'
        BY <3>2 DEF Alone, Shown
      <3> QED
        BY <2>1, <2>2, <3>1, <3>2 DEF Placed
    <2>3. CASE m \notin M
      <3>1. /\ m \in ToSet(book.list) /\ (m \in tangled' <=> m \in tangled)
            /\ book'.msg[m].status = book.msg[m].status
        BY <2>1, <2>3 DEF SameRecords
      <3>2. Shown(m)
        BY <3>1 DEF Inv, ShownOK
      <3> QED
        BY <2>3, <3>1, <3>2 DEF Shown, SamePlaces
    <2> QED
      BY <2>2, <2>3
  <1>6. ASSUME NEW m, Known(m)
        PROVE  Known(m)'
    <2>1. CASE m \in M
      BY <1>6, <2>1 DEF SameRecords
    <2>2. CASE m \notin M
      BY <1>6, <2>2 DEF SameRecords, Known
    <2> QED
      BY <2>1, <2>2
  <1>7. KnownOK'
    <2>1. /\ \A m \in tangled : Known(m)
          /\ \A t \in Threads : send[t].at = "sent" => Known(send[t].what.msg)
      BY DEF Inv, KnownOK
    <2>2. \A m \in tangled' : Known(m)'
      BY <1>6, <2>1 DEF Carries
    <2>3. \A t \in Threads : send'[t].at = "sent" => Known(send[t].what.msg)'
      BY <1>6, <2>1 DEF Carries
    <2> QED
      BY <2>2, <2>3 DEF KnownOK
  <1> QED
    BY <1>2, <1>3, <1>4, <1>5, <1>7 DEF AnswersOK, PlacedOK, OnePlace, ShownOK

\* A message in two places is in one.
LEMMA SolePlace ==
  ASSUME Inv, NEW t \in Threads, NEW u \in Threads, NEW k \in Kinds,
         NEW l \in Kinds, NEW p \in Prompts, NEW q \in Prompts,
         At(t, k, p), At(u, l, q), p.msg = q.msg
  PROVE  u = t /\ l = k /\ q = p
  <1>1. Fact(t, k, p) /\ Fact(u, l, q)
    BY DEF Inv, PlacedOK
  <1>2. p.reply = q.reply
    <2>1. p.reply \in BOOLEAN /\ q.reply \in BOOLEAN
      BY DEF Prompts
    <2>2. (IF p.reply THEN 1 ELSE 0) = (IF q.reply THEN 1 ELSE 0)
      BY <1>1 DEF Fact
    <2> QED
      BY <2>1, <2>2
  <1>3. u = t
    <2>1. \/ t = u
          \/ Other(t) = Other(u)
      BY <1>1, <1>2 DEF Fact
    <2>2. Other(Other(t)) = t /\ Other(Other(u)) = u
      BY OtherFacts
    <2> QED
      BY <2>1, <2>2
  <1>4. l = k
    BY <1>3 DEF Inv, OnePlace
  <1>5. NoTwice(queue[t], tangled)
    BY DEF Inv, NoneTwice
  <1>6. q = p
    BY <1>3, <1>4, <1>5 DEF At, Has, NoTwice, InHand, IsLost, IsLeft
  <1> QED
    BY <1>3, <1>4, <1>6

\* A message that waits has no place.
LEMMA Nowhere ==
  ASSUME Inv, NEW m \in Msgs, book.msg[m].status \in {"none", "held"},
         NEW t \in Threads, NEW k \in Kinds, NEW p \in Prompts, At(t, k, p)
  PROVE  p.msg # m
  BY DEF Inv, PlacedOK, Fact, Known

-----------------------------------------------------------------------------
(* What the steps share.                                                   *)

\* The other Threads are as they were, their queues apart.
Elsewhere(t) ==
  \A u \in Threads \ {t} :
    /\ send'[u] = send[u] /\ arm'[u] = arm[u] /\ turn'[u] = turn[u]
    /\ live'[u] = live[u] /\ base'[u] = base[u] /\ conv'[u] = conv[u]
    /\ floating'[u] = floating[u]

LEMMA ControlKept ==
  ASSUME Control, UNCHANGED <<live, base, arm, turn, send, conv, floating>>
  PROVE  Control'
  BY DEF Control, Steady

LEMMA ControlAt ==
  ASSUME Control, NEW t \in Threads, Elsewhere(t), Steady(t)'
  PROVE  Control'
  <1> SUFFICES ASSUME NEW u \in Threads
               PROVE  Steady(u)'
    BY DEF Control
  <1>1. CASE u = t
    BY <1>1
  <1>2. CASE u # t
    BY <1>2 DEF Control, Steady, Elsewhere
  <1> QED
    BY <1>1, <1>2

LEMMA PlacesKept ==
  ASSUME UNCHANGED <<queue, send, arm, turn, tangled>>, NEW M
  PROVE  SamePlaces(M) /\ \A t \in Threads, k \in Kinds, p \in Prompts :
                            At(t, k, p)' <=> At(t, k, p)
  BY DEF SamePlaces, At, InHand, IsLost, IsLeft

LEMMA PlacesElsewhere ==
  ASSUME NEW t \in Threads, Elsewhere(t), NEW u \in Threads, u # t,
         queue'[u] = queue[u], UNCHANGED tangled, NEW k, NEW p
  PROVE  At(u, k, p)' <=> At(u, k, p)
  BY DEF At, InHand, IsLost, IsLeft, Elsewhere

LEMMA PlacesAt ==
  ASSUME NEW t \in Threads, Elsewhere(t),
         \A u \in Threads \ {t} : queue'[u] = queue[u],
         UNCHANGED tangled,
         NEW M, \A k \in Kinds, p \in Prompts :
                  p.msg \notin M => (At(t, k, p)' <=> At(t, k, p))
  PROVE  SamePlaces(M)
  BY PlacesElsewhere DEF SamePlaces

LEMMA CarriesKept ==
  ASSUME UNCHANGED <<send, tangled>>
  PROVE  Carries
  BY DEF Carries

LEMMA CarriesAt ==
  ASSUME NEW t \in Threads, Elsewhere(t), UNCHANGED tangled,
         \/ send'[t].at # "sent"
         \/ send[t].at = "sent" /\ send'[t].what = send[t].what
         \/ Known(send[t].what.msg)'
  PROVE  Carries
  BY DEF Carries, Elsewhere

\* The records of the messages, when only the pair's own fields change.
LEMMA RecordsKept ==
  ASSUME Inv, NEW M, UNCHANGED history, book'.id = book.id,
         book'.list = book.list, \A m \in M : Known(m) => Known(m)',
         \A m \in Msgs : /\ book'.msg[m].from = book.msg[m].from
                         /\ m \notin M => book'.msg[m].status = book.msg[m].status
  PROVE  SameRecords(M)
  <1>1. book.id \in Int
    BY BookFields DEF Inv, BookOK
  <1> QED
    BY <1>1 DEF SameRecords, history

LEMMA PromptTypes ==
  ASSUME TypeOK, NEW t \in Threads
  PROVE  /\ queue[t] \in Seq(Prompts) /\ send[t].what \in Prompts
         /\ arm[t] \in Prompts /\ turn[t] \in Prompts /\ send[t].at \in SendSteps
         /\ send[t].moved \in BOOLEAN /\ live[t] \in Prompts
         /\ floating[t] \in SUBSET Prompts
  BY DEF TypeOK

\* A message that had no place joins the queue of u.
LEMMA Joins ==
  ASSUME Inv, NEW u \in Threads, NEW p \in Prompts,
         queue' = [queue EXCEPT ![u] = Append(@, p)], UNCHANGED <<send, arm, turn, tangled>>,
         \A t \in Threads, k \in Kinds, q \in Prompts :
           At(t, k, q) => q.msg # p.msg
  PROVE  /\ queue' \in [Threads -> Seq(Prompts)] /\ NoneTwice'
         /\ SamePlaces({p.msg})
         /\ p.msg \notin tangled => At(u, "queue", p)'
         /\ \A t \in Threads, k \in Kinds, q \in Prompts :
              At(t, k, q)' /\ q.msg = p.msg => t = u /\ k = "queue" /\ q = p
  <1> DEFINE s == queue[u]
             a == Append(s, p)
  <1>1. queue \in [Threads -> Seq(Prompts)] /\ s \in Seq(Prompts) /\ NoTwice(s, tangled)
    BY DEF Inv, TypeOK, NoneTwice
  <1>2. \A x : Has(s, x) => x.msg # p.msg \/ p.msg \in tangled
    <2>1. ASSUME NEW x, Has(s, x), p.msg \notin tangled
          PROVE  x.msg # p.msg
      <3>1. x \in Prompts
        BY <1>1, <2>1 DEF Has
      <3>2. x.msg = p.msg => At(u, "queue", x)
        BY <2>1 DEF At
      <3> QED
        BY <3>1, <3>2 DEF Kinds
    <2> QED
      BY <2>1
  <1>3. /\ a \in Seq(Prompts) /\ NoTwice(a, tangled)
        /\ \A x : Has(a, x) <=> Has(s, x) \/ x = p
    BY <1>1, <1>2, AppendHas
  <1> HIDE DEF a, s
  <1>4. queue' = [queue EXCEPT ![u] = a]
    BY DEF a, s
  <1>5. queue'[u] = a /\ \A t \in Threads : t # u => queue'[t] = queue[t]
    BY <1>1, <1>4
  <1>6. \A t \in Threads, k \in Kinds, q \in Prompts :
          At(t, k, q)' <=>
            \/ At(t, k, q)
            \/ p.msg \notin tangled /\ t = u /\ k = "queue" /\ q = p
    <2> SUFFICES ASSUME NEW t \in Threads, NEW k \in Kinds, NEW q \in Prompts
                 PROVE  At(t, k, q)' <=>
                          \/ At(t, k, q)
                          \/ /\ p.msg \notin tangled
                             /\ t = u /\ k = "queue" /\ q = p
      OBVIOUS
    <2>1. CASE t = u
      BY <1>3, <1>5, <2>1 DEF At, InHand, IsLost, IsLeft, s
    <2>2. CASE t # u
      BY <1>5, <2>2 DEF At, InHand, IsLost, IsLeft
    <2> QED
      BY <2>1, <2>2
  <1>7. queue' \in [Threads -> Seq(Prompts)]
    BY <1>1, <1>3, <1>4
  <1>8. NoneTwice'
    BY <1>3, <1>5 DEF Inv, NoneTwice
  <1>9. SamePlaces({p.msg})
    BY <1>6 DEF SamePlaces
  <1>10. p.msg \notin tangled => At(u, "queue", p)'
    BY <1>6 DEF Kinds
  <1> QED
    BY <1>6, <1>7, <1>8, <1>9, <1>10

-----------------------------------------------------------------------------
(* The sender, and the owner's decision.                                   *)

NewBook == IF book.state # "none" THEN book
           ELSE [book EXCEPT !.id = @ + 1, !.state = "pending"]

LEMMA NewBookOK ==
  ASSUME NEW T, BookOK(book, T), NewBook.id <= MaxPairs
  PROVE  /\ BookOK(NewBook, T) /\ NewBook.list = book.list
         /\ NewBook.msg = book.msg /\ NewBook.held = book.held
         /\ NewBook.state # "none" /\ book.id <= NewBook.id
         /\ NewBook.id # book.id => book.list = <<>>
  <1> DEFINE b == NewBook
  <1>1. book \in Book /\ book.id \in 0..MaxPairs
    BY BookFields DEF BookOK
  <1>2. CASE book.state # "none"
    BY <1>1, <1>2 DEF NewBook
  <1>3. CASE book.state = "none"
    <2>1. b = [book EXCEPT !.id = book.id + 1, !.state = "pending"]
      BY <1>3 DEF NewBook
    <2>2. b.id = book.id + 1
      BY <1>1, <2>1 DEF Book
    <2>3. book.id + 1 \in 0..MaxPairs
      BY <1>1, <2>2, Bounds
    <2>4. /\ b.list = book.list /\ b.msg = book.msg /\ b.held = book.held
          /\ b.allowance = book.allowance /\ b.used = book.used
          /\ b.state = "pending" /\ b \in Book
      BY <1>1, <2>1, <2>3 DEF Book
    <2>5. Owed(b) = Owed(book)
      BY <2>4 DEF Owed
    <2>6. BookOK(b, T)
      BY <2>4, <2>5 DEF BookOK, Entry, Cleared
    <2>7. book.list = <<>>
      BY <1>3 DEF BookOK
    <2> QED
      BY <1>1, <2>2, <2>4, <2>6, <2>7
  <1> QED
    BY <1>2, <1>3

LEMMA RecordedAgain ==
  ASSUME NEW b \in Book, NEW m, NEW t
  PROVE  /\ [Listing(b, m, t, "held", 0) EXCEPT !.held = m]
              = Recorded(b, m, t, "held", 0, b.used, m)
         /\ [Listing(b, m, t, "queued", b.allowance) EXCEPT !.used = @ + 2]
              = Recorded(b, m, t, "queued", b.allowance, b.used + 2, b.held)
  <1> DEFINE all == Append(b.list, m)
             over == Len(all) > Keep
             l == IF over THEN Tail(all) ELSE all
             Msg(st, al) ==
               [x \in Msgs |->
                  IF x = m THEN [status |-> st, from |-> t, allowance |-> al]
                  ELSE IF over /\ x = Head(all)
                       THEN [b.msg[x] EXCEPT !.status = "gone"] ELSE b.msg[x]]
  <1> DEFINE g == Msg("held", 0)
             q == Msg("queued", b.allowance)
             L == Listing(b, m, t, "held", 0)
             K == Listing(b, m, t, "queued", b.allowance)
             c == b.used + 2
  <1>2. L = [b EXCEPT !.list = l, !.msg = g] /\ K = [b EXCEPT !.list = l, !.msg = q]
    BY DEF Listing
  <1> HIDE DEF l, Msg, L, K, g, q
  <1>3. K.used = b.used
    BY <1>2 DEF Book
  <1>4. [K EXCEPT !.used = @ + 2] = [K EXCEPT !.used = c]
    BY <1>3
  <1> HIDE DEF c
  <1>5. [K EXCEPT !.used = c] = [K EXCEPT !.used = c, !.held = b.held]
    BY <1>2 DEF Book
  <1>6. [L EXCEPT !.held = m] = [L EXCEPT !.used = b.used, !.held = m]
    BY <1>2 DEF Book
  <1> QED
    BY <1>4, <1>5, <1>6, Zenon DEF L, K, c, Recorded

Uses(st) == IF st = "held" THEN NewBook.used ELSE NewBook.used + 2
Holds(st, m) == IF st = "held" THEN m ELSE None

\* What Send does to the pair, st being what becomes of the message.
LEMMA SendRecords ==
  ASSUME Inv, NEW t \in Threads, NEW m \in Msgs, book.msg[m].status = "none",
         NewBook.id <= MaxPairs, NewBook.state # "denied", NewBook.held = None,
         UNCHANGED <<answers, tangled>>,
         NEW st \in {"held", "queued"}, NEW al \in 0..MaxAllow,
         al <= NewBook.allowance,
         Uses(st) \in 0..Limit,
         book' = Recorded(NewBook, m, t, st, al, Uses(st), Holds(st, m))
  PROVE  /\ BookOK(book, tangled)' /\ m \notin tangled
         /\ SameRecords({m}) /\ Answers(m)' /\ answers[m] = 0
         /\ book'.id = NewBook.id
         /\ book'.msg[m].status = st /\ book'.msg[m].from = t
  <1> DEFINE b == NewBook
             u == Uses(st)
             h == Holds(st, m)
  <1>0. m \notin tangled
    BY DEF Inv, KnownOK, Known
  <1>1. /\ BookOK(b, tangled) /\ b.list = book.list /\ b.msg = book.msg
        /\ b.state # "none" /\ book.id <= b.id
        /\ b.id # book.id => book.list = <<>>
    BY NewBookOK DEF Inv
  <1>2. b.state \in {"pending", "allowed"} /\ b.msg[m].status = "none"
    <2>1. b \in Book
      BY <1>1 DEF BookOK
    <2> QED
      BY <1>1, <2>1 DEF Book
  <1> HIDE DEF b
  <1>3. /\ BookOK(book, tangled)' /\ book'.id = b.id
        /\ book'.msg[m].status = st /\ book'.msg[m].from = t
        /\ \A x \in Msgs \ {m} :
             /\ book'.msg[x].from = b.msg[x].from
             /\ x \in ToSet(book'.list) => x \in ToSet(b.list)
             /\ book'.msg[x].status # b.msg[x].status =>
                  book'.msg[x].status = "gone" /\ x \notin ToSet(book'.list)
    <2> DEFINE a == Recorded(b, m, t, st, al, u, h)
    <2>1. /\ BookOK(a, tangled) /\ a.id = b.id
          /\ a.msg[m].status = st /\ a.msg[m].from = t
          /\ \A x \in Msgs \ {m} :
               /\ a.msg[x].from = b.msg[x].from
               /\ x \in ToSet(a.list) => x \in ToSet(b.list)
               /\ a.msg[x].status # b.msg[x].status =>
                    a.msg[x].status = "gone" /\ x \notin ToSet(a.list)
      <3>1. /\ al <= b.allowance /\ b.held = None
            /\ u = (IF st = "held" THEN b.used ELSE b.used + 2)
            /\ h = (IF st = "held" THEN m ELSE None)
        BY DEF b, Uses, Holds
      <3> HIDE DEF u, h
      <3>2. u \in 0..Limit
        BY DEF u
      <3>3. m \in Msgs /\ tangled \subseteq Msgs /\ al \in 0..MaxAllow
        BY DEF Inv, TypeOK
      <3> QED
        BY <1>0, <1>1, <1>2, <3>1, <3>2, <3>3, ListingOK, SMTT(30)
    <2>2. book' = a
      BY DEF b
    <2> HIDE DEF a
    <2> QED
      BY <2>1, <2>2
  <1>4. ToSet(b.list) = {} \/ b.id = book.id
    BY <1>1 DEF ToSet
  <1>5. SameRecords({m})
    BY <1>1, <1>3, <1>4 DEF SameRecords, Known
  <1>6. answers[m] = 0
    BY <1>0 DEF Inv, AnswersOK, Answers
  <1>7. Answers(m)'
    BY <1>6 DEF Answers
  <1> QED
    BY <1>0, <1>3, <1>5, <1>6, <1>7 DEF b

LEMMA SendKeeps ==
  ASSUME Inv, NEW t \in Threads, NEW m \in Msgs, Send(t, m)
  PROVE  Inv'
  <1> DEFINE b == NewBook
             holds == \/ b.state = "pending"
                      \/ ~b.linked /\ alone
                      \/ b.used + 2 > Limit
  <1>1. /\ book.msg[m].status = "none" /\ b.id <= MaxPairs /\ b.state # "denied"
        /\ b.held = None
    BY DEF Send, NewBook
  <1>2. /\ UNCHANGED <<on, alone, revokes>> /\ UNCHANGED <<live, floating>>
        /\ UNCHANGED <<stage, paused, base, conv, send, arm, turn>>
        /\ UNCHANGED <<answers, tangled>> /\ Carries
    BY CarriesKept DEF Send, policy, provVars, history
  <1>3. \/ /\ book' = [Listing(b, m, t, "held", 0) EXCEPT !.held = m]
           /\ UNCHANGED <<queue, kick>>
        \/ /\ ~holds
           /\ book' = [Listing(b, m, t, "queued", b.allowance)
                         EXCEPT !.used = @ + 2]
           /\ Enqueued(Other(t), Prompt(m, b.id, FALSE))
    BY DEF Send, NewBook
  <1>p. PICK p, o, al : p = Prompt(m, b.id, FALSE) /\ o = Other(t) /\ al = b.allowance
    OBVIOUS
  <1>4. BookOK(b, tangled) /\ b \in Book
    BY <1>1, NewBookOK DEF Inv, BookOK
  <1> HIDE DEF b
  <1>5. /\ b.used \in 0..Limit /\ b.allowance \in 0..MaxAllow /\ 0 \in 0..MaxAllow
        /\ b.list \in Seq(Msgs) /\ b.id \in 0..MaxPairs /\ al <= b.allowance
        /\ 0 <= b.allowance /\ al \in 0..MaxAllow
    BY <1>4, <1>p, BookFields, Bounds
  <1>6. \A x \in Threads, k \in Kinds, q \in Prompts : At(x, k, q) => q.msg # m
    BY <1>1, Nowhere
  <1>7. Control'
    BY <1>2, ControlKept DEF Inv
  <1>8. CASE /\ book' = [Listing(b, m, t, "held", 0) EXCEPT !.held = m]
             /\ UNCHANGED <<queue, kick>>
    <2>1. book' = Recorded(b, m, t, "held", 0, b.used, m)
      <3>1. [Listing(b, m, t, "held", 0) EXCEPT !.held = m]
              = Recorded(b, m, t, "held", 0, b.used, m)
        <4>1. b \in Book
          BY <1>4
        <4> QED
          BY <4>1, RecordedAgain, Zenon
      <3> QED
        BY <1>8, <3>1
    <2>2. /\ BookOK(book, tangled)' /\ SameRecords({m}) /\ Answers(m)'
          /\ book'.msg[m].status = "held"
      <3>1. Uses("held") = b.used /\ Holds("held", m) = m
        BY DEF Uses, Holds, b
      <3>2. Uses("held") \in 0..Limit /\ 0 \in 0..MaxAllow /\ 0 <= NewBook.allowance
        BY <1>5, <3>1 DEF b
      <3>3. book' = Recorded(NewBook, m, t, "held", 0, Uses("held"), Holds("held", m))
        BY <2>1, <3>1 DEF b
      <3>4. UNCHANGED <<answers, tangled>> /\ "held" \in {"held", "queued"}
        BY <1>2
      <3> QED
        BY <1>1, <3>2, <3>3, <3>4, SendRecords DEF b
    <2>3. /\ SamePlaces({m})
          /\ \A x \in Threads, k \in Kinds, q \in Prompts :
               At(x, k, q)' <=> At(x, k, q)
      BY <1>2, <1>8, PlacesKept
    <2>4. Placed({m})'
      BY <1>6, <2>2, <2>3 DEF Placed, Absent
    <2>5. KnownOK' /\ AnswersOK' /\ PlacedOK' /\ OnePlace' /\ ShownOK'
      BY <1>2, <2>2, <2>3, <2>4, Moves
    <2>6. NoneTwice'
      BY <1>2, <1>8 DEF Inv, NoneTwice
    <2>7. TypeOK'
      BY <1>2, <1>8, <2>2 DEF Inv, TypeOK, BookOK
    <2> QED
      BY <1>7, <2>2, <2>5, <2>6, <2>7 DEF Inv
  <1>9. CASE /\ ~holds
             /\ book' = [Listing(b, m, t, "queued", b.allowance)
                           EXCEPT !.used = @ + 2]
             /\ Enqueued(Other(t), Prompt(m, b.id, FALSE))
    <2> DEFINE u == b.used + 2
    <2>1. u \in 0..Limit
      <3>1. ~holds
        BY <1>9
      <3> QED
        BY <1>5, <3>1, Bounds
    <2> HIDE DEF u
    <2>2. book' = Recorded(b, m, t, "queued", al, u, None)
      <3>1. [Listing(b, m, t, "queued", b.allowance) EXCEPT !.used = @ + 2]
              = Recorded(b, m, t, "queued", b.allowance, b.used + 2, b.held)
        <4>1. b \in Book
          BY <1>4
        <4> QED
          BY <4>1, RecordedAgain, Zenon
      <3>2. b.held = None /\ al = b.allowance /\ u = b.used + 2
        BY <1>1, <1>p DEF u, b
      <3> QED
        BY <1>9, <3>1, <3>2, Zenon
    <2>3. /\ BookOK(book, tangled)' /\ SameRecords({m}) /\ Answers(m)' /\ answers[m] = 0
          /\ m \notin tangled /\ book'.msg[m].status = "queued" /\ book'.msg[m].from = t
          /\ book'.id = b.id
      <3>1. Uses("queued") = u /\ Holds("queued", m) = None
        BY DEF Uses, Holds, b, u
      <3>2. Uses("queued") \in 0..Limit /\ al \in 0..MaxAllow /\ al <= NewBook.allowance
        BY <1>5, <2>1, <3>1 DEF b
      <3>3. book' = Recorded(NewBook, m, t, "queued", al, Uses("queued"),
                             Holds("queued", m))
        BY <2>2, <3>1 DEF b
      <3>4. UNCHANGED <<answers, tangled>> /\ "queued" \in {"held", "queued"}
        BY <1>2
      <3> QED
        BY <1>1, <3>2, <3>3, <3>4, SendRecords DEF b
    <2>4. p \in Prompts /\ p.msg = m /\ p.pair = b.id /\ p.reply = FALSE
      BY <1>5, <1>p, NewPrompt
    <2>5. o \in Threads /\ Other(o) = t /\ o # t
      BY <1>p, OtherFacts
    <2>6. /\ queue' = [queue EXCEPT ![o] = Append(@, p)]
          /\ kick' = [kick EXCEPT ![o] = @ \/ (~Busy(o) /\ ~paused[o])]
      BY <1>9, <1>p DEF Enqueued
    <2>7. UNCHANGED <<send, arm, turn, answers, tangled>>
      BY <1>2
    <2>8. \A x \in Threads, k \in Kinds, q \in Prompts : At(x, k, q) => q.msg # p.msg
      BY <1>6, <2>4
    <2>9. /\ queue' \in [Threads -> Seq(Prompts)] /\ NoneTwice'
          /\ SamePlaces({p.msg})
          /\ p.msg \notin tangled => At(o, "queue", p)'
          /\ \A x \in Threads, k \in Kinds, q \in Prompts :
               At(x, k, q)' /\ q.msg = p.msg => x = o /\ k = "queue" /\ q = p
      BY <2>4, <2>5, <2>6, <2>7, <2>8, Joins
    <2>10. Fact(o, "queue", p)'
      <3>1. p.pair <= book'.id /\ p.pair = book'.id
        BY <1>5, <2>3, <2>4
      <3>2. Fits("queue", p)'
        BY <2>3, <2>4, <3>1 DEF Fits
      <3> QED
        BY <2>3, <2>4, <2>5, <2>7, <3>1, <3>2 DEF Fact, Known
    <2>11. Placed({m})'
      <3>1. Alone(m, o, "queue", p)'
        BY <2>3, <2>4, <2>9, <2>10 DEF Alone
      <3> QED
        BY <2>3, <2>4, <2>5, <3>1 DEF Placed, Kinds
    <2>12. KnownOK' /\ AnswersOK' /\ PlacedOK' /\ OnePlace' /\ ShownOK'
      BY <1>2, <2>3, <2>4, <2>9, <2>11, Moves
    <2>13. TypeOK'
      <3>1. kick' \in [Threads -> BOOLEAN]
        <4>1. kick \in [Threads -> BOOLEAN]
          BY DEF Inv, TypeOK
        <4> QED
          BY <2>6, <4>1
      <3> QED
        BY <1>2, <2>3, <2>9, <3>1 DEF Inv, TypeOK, BookOK
    <2> QED
      BY <1>7, <2>3, <2>9, <2>12, <2>13 DEF Inv
  <1> QED
    BY <1>3, <1>8, <1>9

\* The pair that the owner allows, and whether the held message goes.
AllowedAs(link, m, goes) ==
  LET b == NewlyAllowed(link)
  IN  IF goes THEN [b EXCEPT !.used = @ + 2, !.msg[m].status = "queued",
                             !.msg[m].allowance = b.allowance]
      ELSE [b EXCEPT !.msg[m].status = "undelivered"]
Goes(reached) ==
  LET from == book.msg[book.held].from
  IN  Room(book, from, Other(from)) /\ ~reached /\ AllActive

LEMMA AllowedBook ==
  ASSUME BookOK(book, tangled), UNCHANGED tangled, tangled \subseteq Msgs,
         NEW link \in BOOLEAN, NEW m \in Msgs, m = book.held,
         book.allowance < MaxAllow,
         NEW goes \in BOOLEAN,
         book' = AllowedAs(link, m, goes)
  PROVE  /\ BookOK(book, tangled)' /\ book'.id = book.id /\ book'.list = book.list
         /\ \A x \in Msgs :
              /\ book'.msg[x].from = book.msg[x].from
              /\ book'.msg[x].status = IF x # m THEN book.msg[x].status
                                       ELSE IF goes THEN "queued"
                                            ELSE "undelivered"
  <1> DEFINE b == NewlyAllowed(link)
             al == book.allowance + 1
             st == IF goes THEN "queued" ELSE "undelivered"
             u == IF goes THEN 2 ELSE 0
             a == IF goes THEN al ELSE book.msg[m].allowance
             msg == [book.msg EXCEPT ![m] =
                       [status |-> st, from |-> book.msg[m].from, allowance |-> a]]
             lk == book.linked \/ link
  <1>1. /\ book \in Book /\ book.allowance \in 0..MaxAllow
        /\ book.msg \in [Msgs -> [status : Statuses, from : Threads,
                                  allowance : 0..MaxAllow]]
        /\ ToSet(book.list) \subseteq Msgs
    BY BookFields, OwedFinite DEF BookOK
  <1>2. al \in 0..MaxAllow /\ u \in 0..Limit /\ a \in 0..MaxAllow /\ st \in Statuses
        /\ lk \in BOOLEAN
    BY <1>1, Bounds DEF Statuses, Ongoing, Final, Book
  <1>3. msg \in [Msgs -> [status : Statuses, from : Threads,
                          allowance : 0..MaxAllow]]
    BY <1>1, <1>2
  <1>4. \A x \in Msgs : /\ msg[x].from = book.msg[x].from
                        /\ msg[x].status = (IF x # m THEN book.msg[x].status ELSE st)
                        /\ msg[x].allowance = (IF x # m THEN book.msg[x].allowance
                                               ELSE a)
    BY <1>1
  <1>5. b = [book EXCEPT !.state = "allowed", !.linked = lk, !.used = 0,
                         !.allowance = al, !.held = None]
    BY <1>1 DEF NewlyAllowed, Book
  <1>6. b.msg = book.msg /\ b.used = 0 /\ b.allowance = al
    BY <1>1, <1>5 DEF Book
  <1>7. book' = [book EXCEPT !.state = "allowed", !.linked = lk, !.used = u,
                             !.allowance = al, !.held = None, !.msg = msg]
    <2>1. CASE goes
      <3>1. msg = [b.msg EXCEPT ![m].status = "queued", ![m].allowance = b.allowance]
        BY <1>1, <1>6, <2>1
      <3>2. u = b.used + 2
        BY <1>6, <2>1
      <3>3. book' = [b EXCEPT !.used = @ + 2, !.msg[m].status = "queued",
                              !.msg[m].allowance = b.allowance]
        BY <2>1 DEF AllowedAs
      <3> HIDE DEF msg, u, al, b, lk
      <3>4. book' = [b EXCEPT !.used = u, !.msg = msg]
        BY <1>1, <1>5, <1>6, <3>1, <3>2, <3>3, ZenonT(60) DEF Book
      <3> QED
        BY <1>1, <1>5, <3>4 DEF Book
    <2>2. CASE ~goes
      <3>1. msg = [b.msg EXCEPT ![m].status = "undelivered"]
        BY <1>1, <1>6, <2>2
      <3>2. u = b.used
        BY <1>6, <2>2
      <3>3. book' = [b EXCEPT !.msg[m].status = "undelivered"]
        BY <2>2 DEF AllowedAs
      <3> HIDE DEF msg, u, al, b, lk
      <3>4. book' = [b EXCEPT !.used = u, !.msg = msg]
        BY <1>1, <1>5, <1>6, <3>1, <3>2, <3>3 DEF Book
      <3> QED
        BY <1>1, <1>5, <3>4 DEF Book
    <2> QED
      BY <2>1, <2>2
  <1> HIDE DEF msg, u, al, b, lk
  <1>8. /\ book'.state = "allowed" /\ book'.used = u /\ book'.allowance = al
        /\ book'.held = None /\ book'.msg = msg /\ book'.id = book.id
        /\ book'.list = book.list /\ book' \in Book
    BY <1>1, <1>2, <1>3, <1>7, Bounds DEF Book
  <1>9. book.allowance < al /\ al \in Int /\ a <= al
    <2>1. m \in ToSet(book.list) /\ Entry(book, m)
      BY Bounds DEF BookOK
    <2>2. book.msg[m].allowance \in Int /\ book.msg[m].allowance <= book.allowance
      BY <1>1, <2>1 DEF Entry
    <2> QED
      BY <1>1, <2>2 DEF al
  <1>10. \A x \in ToSet(book.list) : /\ book'.msg[x].allowance <= al
                                     /\ x # m => book'.msg[x].allowance # al
    <2> SUFFICES ASSUME NEW x \in ToSet(book.list)
                 PROVE  /\ book'.msg[x].allowance <= al
                        /\ x # m => book'.msg[x].allowance # al
      OBVIOUS
    <2>1. x \in Msgs /\ Entry(book, x)
      BY <1>1 DEF BookOK
    <2>2. /\ book.msg[x].allowance \in Int /\ book.msg[x].allowance <= book.allowance
          /\ book.allowance \in Int
      BY <1>1, <2>1 DEF Entry
    <2>3. book'.msg[x].allowance = IF x # m THEN book.msg[x].allowance ELSE a
      BY <1>4, <1>8, <2>1
    <2> HIDE DEF a
    <2> QED
      BY <1>9, <2>2, <2>3
  <1>11. Owed(book') \in SUBSET (IF goes THEN {m} ELSE {})
    <2>1. \A x \in Owed(book') : x = m
      BY <1>8, <1>10 DEF Owed
    <2>2. ~goes => m \notin Owed(book')
      BY <1>4, <1>8 DEF Owed, Ongoing
    <2> QED
      BY <2>1, <2>2
  <1>12. 2 * Cardinality(Owed(book')) <= u
    <2>1. CASE goes
      <3>1. IsFiniteSet({m}) /\ Cardinality({m}) = 1
        BY FS_Singleton
      <3>2. Cardinality(Owed(book')) <= 1 /\ Cardinality(Owed(book')) \in Nat
        <4> DEFINE O == Owed(book')
        <4>1. O \in SUBSET {m}
          BY <1>11, <2>1
        <4> HIDE DEF O
        <4>2. IsFiniteSet(O) /\ Cardinality(O) <= Cardinality({m})
          BY <3>1, <4>1, FS_Subset
        <4>3. Cardinality(O) <= 1 /\ Cardinality(O) \in Nat
          BY <3>1, <4>2, FS_CardinalityType
        <4> QED
          BY <4>3 DEF O
      <3> DEFINE n == Cardinality(Owed(book'))
      <3>3. n <= 1 /\ n \in Nat
        BY <3>2
      <3> HIDE DEF n
      <3>4. 2 * n <= 2
        BY <3>3
      <3> QED
        BY <2>1, <3>4 DEF u, n
    <2>2. CASE ~goes
      <3>1. Owed(book') = {}
        BY <1>11, <2>2
      <3>2. Cardinality({}) = 0
        BY FS_EmptySet
      <3> QED
        BY <2>2, <3>1, <3>2 DEF u
    <2> QED
      BY <2>1, <2>2
  <1>13. BookOK(book, tangled)'
    <2>1. book.state # "none"
      BY Bounds DEF BookOK
    <2>2. book'.msg[book.held].status \in {"queued", "undelivered", "declined"}
      BY <1>4, <1>8
    <2>3. \A x \in ToSet(book.list) :
            /\ book'.msg[x].allowance <= book'.allowance
            /\ x # book.held => book'.msg[x].status = book.msg[x].status
      BY <1>1, <1>4, <1>8, <1>10
    <2>4. book.allowance <= book'.allowance
      BY <1>1, <1>8, <1>9
    <2>5. 2 * Cardinality(Owed(book')) <= book'.used
      BY <1>8, <1>12
    <2> QED
      BY <1>8, <2>1, <2>2, <2>3, <2>4, <2>5, DecidedOK
  <1> QED
    BY <1>4, <1>8, <1>13

LEMMA AllowKeeps ==
  ASSUME Inv, NEW link \in BOOLEAN, NEW reached \in BOOLEAN,
         Allow(link, reached)
  PROVE  Inv'
  <1>p. PICK m, from, goes :
          /\ m = book.held /\ from = book.msg[m].from
          /\ goes = Goes(reached)
    OBVIOUS
  <1>1. /\ m \in Msgs /\ book.msg[m].status = "held" /\ book.allowance < MaxAllow
        /\ from \in Threads /\ goes \in BOOLEAN /\ book \in Book
        /\ m \in ToSet(book.list)
    <2>1. book \in Book /\ book.allowance < MaxAllow /\ m # None
      BY <1>p DEF Inv, BookOK, Allow
    <2>2. m \in Msgs
      BY <1>p, <2>1 DEF Book
    <2>3. from \in Threads
      BY <1>p, <2>1, <2>2 DEF Book
    <2>4. goes \in BOOLEAN
      BY <1>p DEF Goes
    <2> QED
      BY <1>p, <2>1, <2>2, <2>3, <2>4 DEF Inv, BookOK
  <1>2. /\ UNCHANGED <<on, alone, revokes>> /\ UNCHANGED <<live, floating>>
        /\ UNCHANGED <<stage, paused, base, conv, send, arm, turn>>
        /\ UNCHANGED <<answers, tangled>> /\ Carries
    BY CarriesKept DEF Allow, policy, provVars, history
  <1>3. /\ book' = AllowedAs(link, m, goes)
        /\ IF goes
           THEN Enqueued(Other(from), Prompt(m, NewlyAllowed(link).id, FALSE))
           ELSE UNCHANGED <<queue, kick>>
    <2>1. book' = AllowedAs(link, book.held, Goes(reached))
      BY DEF Allow, AllowedAs, Goes
    <2>2. IF Goes(reached)
          THEN Enqueued(Other(book.msg[book.held].from),
                        Prompt(book.held, NewlyAllowed(link).id, FALSE))
          ELSE UNCHANGED <<queue, kick>>
      BY DEF Allow, Goes
    <2> QED
      BY <1>p, <2>1, <2>2
  <1>4. /\ BookOK(book, tangled)' /\ book'.id = book.id /\ book'.list = book.list
        /\ \A x \in Msgs :
             /\ book'.msg[x].from = book.msg[x].from
             /\ book'.msg[x].status = IF x # m THEN book.msg[x].status
                                      ELSE IF goes THEN "queued" ELSE "undelivered"
    BY <1>1, <1>2, <1>3, <1>p, AllowedBook DEF Inv, TypeOK
  <1>5. \A x \in Threads, k \in Kinds, q \in Prompts : At(x, k, q) => q.msg # m
    BY <1>1, Nowhere
  <1>6. Control'
    BY <1>2, ControlKept DEF Inv
  <1>7. SameRecords({m})
    <2>1. Known(m)'
      BY <1>1, <1>4 DEF Known
    <2> QED
      BY <1>2, <1>4, <2>1, RecordsKept DEF history
  <1>8. answers[m] = 0 /\ Answers(m)' /\ m \notin tangled
    <2>1. m \notin tangled
      BY <1>1 DEF Inv, KnownOK, Known
    <2>2. answers[m] = 0
      BY <1>1, <2>1 DEF Inv, AnswersOK, Answers
    <2> QED
      BY <1>2, <2>1, <2>2 DEF Answers
  <1>9. CASE ~goes
    <2>1. /\ SamePlaces({m})
          /\ \A x \in Threads, k \in Kinds, q \in Prompts :
               At(x, k, q)' <=> At(x, k, q)
      BY <1>2, <1>3, <1>9, PlacesKept
    <2>2. Placed({m})'
      BY <1>1, <1>4, <1>5, <1>8, <1>9, <2>1 DEF Placed, Absent
    <2>3. KnownOK' /\ AnswersOK' /\ PlacedOK' /\ OnePlace' /\ ShownOK'
      BY <1>1, <1>2, <1>4, <1>7, <2>1, <2>2, Moves
    <2>4. NoneTwice'
      BY <1>2, <1>3, <1>9 DEF Inv, NoneTwice
    <2>5. TypeOK'
      BY <1>2, <1>3, <1>4, <1>9 DEF Inv, TypeOK, BookOK
    <2> QED
      BY <1>4, <1>6, <2>3, <2>4, <2>5 DEF Inv
  <1>10. CASE goes
    <2>p. PICK p, o : p = Prompt(m, NewlyAllowed(link).id, FALSE) /\ o = Other(from)
      OBVIOUS
    <2>1. p \in Prompts /\ p.msg = m /\ p.pair = book.id /\ p.reply = FALSE
      <3>1. NewlyAllowed(link).id = book.id /\ book.id \in 0..MaxPairs
        BY <1>1, BookFields DEF NewlyAllowed, Book
      <3> QED
        BY <1>1, <2>p, <3>1, NewPrompt
    <2>2. o \in Threads /\ Other(o) = from /\ o # from
      BY <1>1, <2>p, OtherFacts
    <2>3. /\ queue' = [queue EXCEPT ![o] = Append(@, p)]
          /\ kick' = [kick EXCEPT ![o] = @ \/ (~Busy(o) /\ ~paused[o])]
      BY <1>3, <1>10, <2>p DEF Enqueued
    <2>4. UNCHANGED <<send, arm, turn, answers, tangled>>
      BY <1>2
    <2>5. \A x \in Threads, k \in Kinds, q \in Prompts : At(x, k, q) => q.msg # p.msg
      BY <1>5, <2>1
    <2>6. /\ queue' \in [Threads -> Seq(Prompts)] /\ NoneTwice'
          /\ SamePlaces({p.msg})
          /\ p.msg \notin tangled => At(o, "queue", p)'
          /\ \A x \in Threads, k \in Kinds, q \in Prompts :
               At(x, k, q)' /\ q.msg = p.msg => x = o /\ k = "queue" /\ q = p
      BY <2>1, <2>2, <2>3, <2>4, <2>5, Joins
    <2>7. book'.msg[m].status = "queued" /\ book'.msg[m].from = from
      BY <1>1, <1>4, <1>10, <1>p
    <2>8. Fact(o, "queue", p)'
      <3>1. p.pair <= book'.id /\ p.pair = book'.id
        BY <1>1, <1>4, <2>1, BookFields
      <3>2. Fits("queue", p)'
        BY <2>1, <2>7, <3>1 DEF Fits
      <3> QED
        BY <1>1, <1>8, <2>1, <2>2, <2>4, <2>7, <3>1, <3>2 DEF Fact, Known
    <2>9. Placed({m})'
      <3>1. Alone(m, o, "queue", p)'
        BY <1>8, <2>1, <2>6, <2>8 DEF Alone
      <3> QED
        BY <1>8, <2>1, <2>2, <3>1 DEF Placed, Kinds
    <2>10. KnownOK' /\ AnswersOK' /\ PlacedOK' /\ OnePlace' /\ ShownOK'
      BY <1>1, <1>2, <1>4, <1>7, <2>1, <2>6, <2>9, Moves
    <2>11. TypeOK'
      <3>1. kick' \in [Threads -> BOOLEAN]
        <4>1. kick \in [Threads -> BOOLEAN]
          BY DEF Inv, TypeOK
        <4> QED
          BY <2>3, <4>1
      <3> QED
        BY <1>2, <1>4, <2>6, <3>1 DEF Inv, TypeOK, BookOK
    <2> QED
      BY <1>4, <1>6, <2>6, <2>10, <2>11 DEF Inv
  <1> QED
    BY <1>1, <1>9, <1>10

-----------------------------------------------------------------------------
(* A message that ends, and one that moves on.                             *)

LEMMA PlaceFacts ==
  ASSUME Inv, NEW t \in Threads, NEW k \in Kinds, NEW p \in Prompts, At(t, k, p)
  PROVE  /\ Fact(t, k, p) /\ p.msg \in Msgs /\ IsPeer(p) /\ p # NoPrompt
         /\ p.msg \in ToSet(book.list) <=> Listed(book, p)
         /\ Listed(book, p) => Fits(k, p)
         /\ book.msg[p.msg].status \notin {"none", "held"}
  <1>1. Fact(t, k, p)
    BY DEF Inv, PlacedOK
  <1>2. p.msg \in Msgs /\ IsPeer(p) /\ p # NoPrompt
    BY <1>1, Bounds, PromptFacts DEF Fact, Known, IsPeer
  <1>3. p.msg \in ToSet(book.list) => book.state # "none"
    BY DEF Inv, BookOK, ToSet
  <1> QED
    BY <1>1, <1>2, <1>3 DEF Fact, Known, Fits, Listed

\* The same, of a message that may be tangled.
LEMMA SomeFacts ==
  ASSUME Inv, NEW t \in Threads, NEW k \in Kinds, NEW p \in Prompts,
         p.msg \notin tangled => At(t, k, p)
  PROVE  Known(p.msg) /\ p.msg \in Msgs /\ IsPeer(p) /\ p # NoPrompt
  <1>1. CASE p.msg \in tangled
    <2>1. Known(p.msg) /\ p.msg \in Msgs
      BY <1>1 DEF Inv, KnownOK, Known
    <2> QED
      BY <2>1, Bounds, PromptFacts DEF IsPeer
  <1>2. CASE p.msg \notin tangled
    BY <1>2, PlaceFacts DEF Known
  <1> QED
    BY <1>1, <1>2

LEMMA EndsAt ==
  ASSUME Inv, NEW t \in Threads, NEW k \in Kinds, NEW p \in Prompts,
         p.msg \notin tangled => At(t, k, p),
         NEW st \in Ends, book' = Ended(book, p, st), UNCHANGED <<answers, tangled>>
  PROVE  /\ BookOK(book, tangled)' /\ SameRecords({p.msg}) /\ Answers(p.msg)'
         /\ book'.id = book.id /\ book'.list = book.list
         /\ Known(p.msg)'
         /\ book'.msg[p.msg].from = book.msg[p.msg].from
         /\ p.msg \notin tangled =>
              /\ p.msg \in ToSet(book'.list) => book'.msg[p.msg].status = st
              /\ Fact(t, "lost", p)' /\ Fact(t, "left", p)'
  <1>1. p.msg \in Msgs /\ Known(p.msg)
    BY SomeFacts
  <1>2. /\ BookOK(book', tangled) /\ book'.list = book.list /\ book'.id = book.id
        /\ \A m \in Msgs :
             /\ book'.msg[m].from = book.msg[m].from
             /\ book'.msg[m].status = IF Listed(book, p) /\ m = p.msg THEN st
                                      ELSE book.msg[m].status
    <2>1. book.msg[p.msg].status # "held" /\ tangled \subseteq Msgs
          /\ BookOK(book, tangled)
      BY <1>1 DEF Inv, TypeOK, Known
    <2> QED
      BY <2>1, EndedOK
  <1>3. st \notin {"none", "held"}
    BY DEF Ends, Final
  <1>4. Known(p.msg)'
    BY <1>1, <1>2, <1>3 DEF Known
  <1>5. SameRecords({p.msg})
    BY <1>2, <1>4, RecordsKept DEF history
  <1>6. Answers(p.msg)'
    BY <1>1, <1>4 DEF Inv, AnswersOK, Answers, Known
  <1>7. ASSUME p.msg \notin tangled
        PROVE  /\ p.msg \in ToSet(book'.list) => book'.msg[p.msg].status = st
               /\ Fact(t, "lost", p)' /\ Fact(t, "left", p)'
    <2>1. /\ (p.msg \in ToSet(book.list) <=> Listed(book, p)) /\ Fact(t, k, p)
          /\ Listed(book, p) => Fits(k, p)
      BY <1>7, PlaceFacts
    <2>2. p.msg \in ToSet(book'.list) => Fits("lost", p)' /\ Fits("left", p)'
      BY <1>1, <1>2, <2>1 DEF Fits
    <2> QED
      BY <1>1, <1>2, <1>4, <2>1, <2>2 DEF Fact
  <1> QED
    BY <1>1, <1>2, <1>4, <1>5, <1>6, <1>7

\* A message that ended and has no place.
LEMMA Vanishes ==
  ASSUME NEW m \in Msgs, Answers(m)', NEW st \in Ends,
         m \in tangled' \/ (m \in ToSet(book'.list) => book'.msg[m].status = st),
         \A t \in Threads, k \in Kinds, p \in Prompts : At(t, k, p)' => p.msg # m
  PROVE  Placed({m})'
  BY DEF Placed, Absent, Ends, Final

\* A prompt in a place moves on to the place l of the same Thread.
LEMMA MovesAt ==
  ASSUME Inv, NEW t \in Threads, NEW k \in {"arm", "turn"}, NEW p \in Prompts,
         p.msg \notin tangled => At(t, k, p), k = "turn" => ~p.reply,
         NEW st \in {"working", "replying", "replied"}, book' = Moved(book, p, st),
         UNCHANGED tangled, \A m \in Msgs \ {p.msg} : answers'[m] = answers[m]
  PROVE  /\ BookOK(book, tangled)' /\ SameRecords({p.msg})
         /\ book'.id = book.id /\ book'.list = book.list
         /\ Known(p.msg)'
         /\ book'.msg[p.msg].from = book.msg[p.msg].from
         /\ p.msg \notin tangled =>
              (p.msg \in ToSet(book'.list) => book'.msg[p.msg].status = st)
  <1>1. p.msg \in Msgs /\ Known(p.msg) /\ k \in Kinds
    BY SomeFacts DEF Kinds
  <1>2. ASSUME p.msg \notin tangled
        PROVE  /\ p.msg \in ToSet(book.list) <=> Listed(book, p)
               /\ Listed(book, p) => book.msg[p.msg].status \in Ongoing
    <2>1. /\ p.msg \in ToSet(book.list) <=> Listed(book, p)
          /\ Listed(book, p) => Fits(k, p)
      BY <1>1, <1>2, PlaceFacts
    <2> QED
      BY <2>1 DEF Fits, Ongoing
  <1>3. /\ BookOK(book', tangled) /\ book'.list = book.list /\ book'.id = book.id
        /\ \A m \in Msgs :
             /\ book'.msg[m].from = book.msg[m].from
             /\ book'.msg[m].status = IF Listed(book, p) /\ m = p.msg THEN st
                                      ELSE book.msg[m].status
    <2>1. /\ book.msg[p.msg].status # "held" /\ tangled \subseteq Msgs
          /\ BookOK(book, tangled)
          /\ Listed(book, p) =>
               p.msg \in tangled \/ book.msg[p.msg].status \in Ongoing
      BY <1>1, <1>2 DEF Inv, TypeOK, Known
    <2> QED
      BY <2>1, MovedOK
  <1>4. Known(p.msg)'
    BY <1>1, <1>3 DEF Known
  <1>5. SameRecords({p.msg})
    <2>1. book.id \in Int
      BY BookFields DEF Inv, BookOK
    <2> QED
      BY <1>3, <1>4, <2>1 DEF SameRecords
  <1> QED
    BY <1>1, <1>2, <1>3, <1>4, <1>5

-----------------------------------------------------------------------------
(* The owner's other steps.                                                *)

LEMMA DenyKeeps ==
  ASSUME Inv, Deny
  PROVE  Inv'
  <1>p. PICK m : m = book.held
    OBVIOUS
  <1>1. /\ UNCHANGED <<on, alone>> /\ UNCHANGED <<live, floating, queue, kick>>
        /\ UNCHANGED <<stage, paused, base, conv, send, arm, turn, answers, tangled>>
        /\ revokes < MaxRevokes /\ revokes' = revokes + 1
        /\ book.state \in {"pending", "allowed"}
        /\ book' = IF m = None THEN [book EXCEPT !.state = "denied"]
                   ELSE [book EXCEPT !.state = "denied", !.held = None,
                                     !.msg[m].status = "declined"]
    BY <1>p DEF Deny, provVars, threadVars, history, Revokes
  <1>2. book \in Book /\ book.held \in Msgs \cup {None}
        /\ book.msg \in [Msgs -> [status : Statuses, from : Threads,
                                  allowance : 0..MaxAllow]]
    BY BookFields DEF Inv, BookOK
  <1> DEFINE msg == IF m = None THEN book.msg
                    ELSE [book.msg EXCEPT ![m].status = "declined"]
  <1>3. /\ msg \in [Msgs -> [status : Statuses, from : Threads,
                             allowance : 0..MaxAllow]]
        /\ \A x \in Msgs : /\ msg[x].from = book.msg[x].from
                           /\ msg[x].allowance = book.msg[x].allowance
                           /\ msg[x].status = IF x = m THEN "declined"
                                              ELSE book.msg[x].status
    BY <1>2, <1>p, Bounds DEF Statuses, Final
  <1>4. book' = [book EXCEPT !.state = "denied", !.held = None, !.msg = msg]
    <2>1. CASE m = None
      BY <1>1, <1>2, <1>p, <2>1 DEF Book
    <2>2. CASE m # None
      <3>1. msg = [book.msg EXCEPT ![m].status = "declined"]
        BY <2>2
      <3> HIDE DEF msg
      <3> QED
        BY <1>1, <1>2, <2>2, <3>1 DEF Book
    <2> QED
      BY <2>1, <2>2
  <1> HIDE DEF msg
  <1>5. /\ book'.state = "denied" /\ book'.used = book.used /\ book'.held = None
        /\ book'.allowance = book.allowance /\ book'.msg = msg /\ book'.id = book.id
        /\ book'.list = book.list /\ book' \in Book
    BY <1>2, <1>3, <1>4 DEF Book
  <1>6. ToSet(book.list) \subseteq Msgs /\ book.used \in Nat
        /\ book.allowance \in Int
    BY <1>2, OwedFinite, BookFields
  <1>7. Owed(book') \in SUBSET Owed(book)
    <2> SUFFICES ASSUME NEW x \in Owed(book')
                 PROVE  x \in Owed(book)
      OBVIOUS
    <2>1. x \in ToSet(book.list) /\ x \in Msgs
      BY <1>5, <1>6 DEF Owed
    <2>2. msg[x].status # "declined"
      BY <1>5 DEF Owed, Ongoing
    <2>3. msg[x].status = book.msg[x].status /\ msg[x].allowance = book.msg[x].allowance
      BY <1>3, <2>1, <2>2
    <2> QED
      BY <1>5, <2>1, <2>3 DEF Owed
  <1>8. BookOK(book, tangled)'
    <2> DEFINE x == Cardinality(Owed(book'))
               y == Cardinality(Owed(book))
    <2>1. x \in Nat /\ x <= y /\ y \in Nat
      BY <1>2, <1>7, OwedSubset, OwedFinite
    <2>2. Cleared(book', tangled) => 2 * y <= book.used
      BY <1>3, <1>5 DEF Inv, TypeOK, BookOK, Cleared
    <2> HIDE DEF x, y
    <2>3. Cleared(book', tangled) => 2 * Cardinality(Owed(book')) <= book'.used
      BY <1>5, <1>6, <2>1, <2>2 DEF x
    <2>4. \A z \in ToSet(book.list) :
            /\ book'.msg[z].allowance <= book'.allowance
            /\ z # book.held => book'.msg[z].status = book.msg[z].status
      BY <1>3, <1>5, <1>6, <1>p DEF Inv, BookOK, Entry
    <2>5. book.held # None =>
            book'.msg[book.held].status \in {"queued", "undelivered", "declined"}
      BY <1>2, <1>3, <1>5, <1>p
    <2>6. book.state # "none" /\ book.allowance <= book'.allowance
      BY <1>1, <1>5, <1>6
    <2> QED
      BY <1>5, <2>3, <2>4, <2>5, <2>6, <1>1, DecidedOK DEF Inv, TypeOK
  <1> DEFINE M == {m} \cap Msgs
  <1>9. SameRecords(M)
    <2>1. \A x \in M : Known(x) => Known(x)'
      BY <1>3, <1>5 DEF Known
    <2> QED
      BY <1>1, <1>3, <1>5, <2>1, RecordsKept DEF history
  <1>10. /\ SamePlaces(M)
         /\ \A x \in Threads, k \in Kinds, q \in Prompts :
              At(x, k, q)' <=> At(x, k, q)
    BY <1>1, PlacesKept
  <1>11. Placed(M)'
    <2> SUFFICES ASSUME m \in Msgs
                 PROVE  Placed({m})'
      BY DEF Placed
    <2>1. book.msg[m].status = "held"
      BY <1>p, Bounds DEF Inv, BookOK
    <2>2. \A x \in Threads, k \in Kinds, q \in Prompts : At(x, k, q) => q.msg # m
      BY <2>1, Nowhere
    <2>3. book'.msg[m].status = "declined" /\ "declined" \in Ends
      BY <1>3, <1>5 DEF Ends, Final
    <2>4. Answers(m)'
      BY <1>1, <2>1, <2>3 DEF Inv, KnownOK, Known, AnswersOK, Answers
    <2>5. \A x \in Threads, k \in Kinds, q \in Prompts : At(x, k, q)' => q.msg # m
      BY <1>10, <2>2
    <2> QED
      BY <2>3, <2>4, <2>5, Vanishes
  <1>12. KnownOK' /\ AnswersOK' /\ PlacedOK' /\ OnePlace' /\ ShownOK'
    BY <1>1, <1>8, <1>9, <1>10, <1>11, CarriesKept, Moves
  <1>13. NoneTwice' /\ Control'
    BY <1>1, ControlKept DEF Inv, NoneTwice
  <1>14. TypeOK'
    <2>1. revokes' \in 0..MaxRevokes
      BY <1>1, Bounds DEF Inv, TypeOK
    <2> QED
      BY <1>1, <1>5, <2>1 DEF Inv, TypeOK
  <1> QED
    BY <1>8, <1>12, <1>13, <1>14 DEF Inv

\* A step that moves no message.
LEMMA StillKeeps ==
  ASSUME Inv, UNCHANGED <<queue, send, arm, turn, answers, tangled>>, Control',
         BookOK(book, tangled)', SameRecords({}), TypeOK'
  PROVE  Inv'
  <1>1. SamePlaces({})
    BY PlacesKept
  <1>2. Placed({})'
    BY DEF Placed
  <1>3. KnownOK' /\ AnswersOK' /\ PlacedOK' /\ OnePlace' /\ ShownOK'
    BY <1>1, <1>2, CarriesKept, Moves
  <1>4. NoneTwice'
    BY DEF Inv, NoneTwice
  <1> QED
    BY <1>3, <1>4 DEF Inv

LEMMA RecordsSame ==
  ASSUME Inv, UNCHANGED <<book, answers, tangled>>
  PROVE  BookOK(book, tangled)' /\ \A M : SameRecords(M)
  <1>1. book.id \in Int
    BY BookFields DEF Inv, BookOK
  <1> QED
    BY <1>1 DEF Inv, SameRecords, BookOK, Cleared, Known

LEMMA DroppedRecords ==
  ASSUME Inv, book' = Dropped(book), UNCHANGED <<answers, tangled>>
  PROVE  BookOK(book, tangled)' /\ \A M : SameRecords(M)
  <1>1. book.id \in Int
    BY BookFields DEF Inv, BookOK
  <1>2. /\ BookOK(book', tangled) /\ book'.list = <<>> /\ book'.id = book.id
        /\ \A m \in Msgs :
             /\ book'.msg[m].from = book.msg[m].from
             /\ book'.msg[m].status = IF book.msg[m].status = "none" THEN "none"
                                      ELSE "gone"
    BY DroppedOK DEF Inv, TypeOK
  <1>3. ToSet(book'.list) = {}
    BY <1>2 DEF ToSet
  <1> QED
    BY <1>1, <1>2, <1>3 DEF SameRecords, Known

LEMMA ResetKeeps ==
  ASSUME Inv, Reset
  PROVE  Inv'
  <1>1. /\ UNCHANGED <<on, alone>> /\ UNCHANGED <<live, floating, queue, kick>>
        /\ UNCHANGED <<stage, paused, base, conv, send, arm, turn, answers, tangled>>
        /\ revokes < MaxRevokes /\ revokes' = revokes + 1
        /\ book' = Dropped(book)
    BY DEF Reset, provVars, threadVars, history, Revokes
  <1>2. BookOK(book, tangled)' /\ SameRecords({})
    BY <1>1, DroppedRecords
  <1>3. revokes' \in 0..MaxRevokes
    BY <1>1, Bounds DEF Inv, TypeOK
  <1>4. TypeOK'
    BY <1>1, <1>2, <1>3 DEF Inv, TypeOK, BookOK
  <1> QED
    BY <1>1, <1>2, <1>4, ControlKept, StillKeeps DEF Inv

LEMMA SettingKeeps ==
  ASSUME Inv, Switch \/ SetMode
  PROVE  Inv'
  <1>1. /\ UNCHANGED <<book, live, floating, answers, tangled, queue, kick>>
        /\ UNCHANGED <<stage, paused, base, conv, send, arm, turn>>
        /\ on' \in BOOLEAN /\ alone' \in BOOLEAN
        /\ revokes' = revokes \/ (revokes < MaxRevokes /\ revokes' = revokes + 1)
    BY DEF Switch, SetMode, provVars, threadVars, history, Revokes, Inv, TypeOK
  <1>2. BookOK(book, tangled)' /\ SameRecords({})
    BY <1>1, RecordsSame
  <1>3. revokes' \in 0..MaxRevokes
    BY <1>1, Bounds DEF Inv, TypeOK
  <1>4. TypeOK'
    BY <1>1, <1>3 DEF Inv, TypeOK
  <1> QED
    BY <1>1, <1>2, <1>4, ControlKept, StillKeeps DEF Inv

LEMMA ReopenKeeps ==
  ASSUME Inv, NEW t \in Threads, Reopen(t) \/ ResumeQueue(t)
  PROVE  Inv'
  <1>1. /\ UNCHANGED <<on, alone, revokes, book, live, floating, queue>>
        /\ UNCHANGED <<answers, tangled, base, conv, send, arm, turn>>
    BY DEF Reopen, ResumeQueue, policy, provVars, history
  <1>2. BookOK(book, tangled)' /\ SameRecords({})
    BY <1>1, RecordsSame
  <1>3. TypeOK'
    <2>1. CASE Reopen(t)
      BY <1>1, <2>1 DEF Reopen, Inv, TypeOK
    <2>2. CASE ResumeQueue(t)
      <3>1. kick \in [Threads -> BOOLEAN] /\ paused \in [Threads -> BOOLEAN]
        BY DEF Inv, TypeOK
      <3>2. kick' \in [Threads -> BOOLEAN] /\ paused' \in [Threads -> BOOLEAN]
        BY <2>2, <3>1 DEF ResumeQueue
      <3> QED
        BY <1>1, <2>2, <3>2 DEF ResumeQueue, Inv, TypeOK
    <2> QED
      BY <2>1, <2>2
  <1> QED
    BY <1>1, <1>2, <1>3, ControlKept, StillKeeps DEF Inv

-----------------------------------------------------------------------------
(* A message that moves on within a Thread, and one that leaves it.         *)

LEMMA Advance ==
  ASSUME Inv, NEW t \in Threads, NEW k \in Kinds, NEW l \in Kinds,
         NEW p \in Prompts, p.msg \notin tangled => At(t, k, p), Elsewhere(t),
         \A u \in Threads \ {t} : queue'[u] = queue[u],
         \A j \in Kinds, q \in Prompts :
           q.msg # p.msg => (At(t, j, q)' <=> At(t, j, q)),
         \A j \in Kinds, q \in Prompts :
           At(t, j, q)' /\ q.msg = p.msg => j = l /\ q = p,
         p.msg \notin tangled => At(t, l, p)' /\ Fact(t, l, p)',
         Answers(p.msg)', BookOK(book, tangled)', SameRecords({p.msg}),
         UNCHANGED tangled, Carries
  PROVE  KnownOK' /\ AnswersOK' /\ PlacedOK' /\ OnePlace' /\ ShownOK'
  <1>1. p.msg \in Msgs
    BY SomeFacts
  <1>2. SamePlaces({p.msg})
    BY PlacesAt
  <1>3. ASSUME NEW u \in Threads, NEW j \in Kinds, NEW q \in Prompts,
               At(u, j, q)', q.msg = p.msg
        PROVE  u = t /\ j = l /\ q = p
    <2>1. u # t => At(u, j, q)
      BY <1>3, PlacesElsewhere
    <2>2. At(t, k, p)
      BY <1>3 DEF At
    <2>3. u = t
      BY <1>3, <2>1, <2>2, SolePlace
    <2> QED
      BY <1>3, <2>3
  <1>4. CASE p.msg \notin tangled
    <2>1. Alone(p.msg, t, l, p)'
      BY <1>3, <1>4 DEF Alone
    <2>2. Placed({p.msg})'
      BY <2>1 DEF Placed
    <2> QED
      BY <1>1, <1>2, <2>2, Moves
  <1>5. CASE p.msg \in tangled
    <2>1. Absent(p.msg)'
      BY <1>5 DEF Absent, At
    <2>2. Placed({p.msg})'
      BY <2>1 DEF Placed
    <2> QED
      BY <1>1, <1>2, <2>2, Moves
  <1> QED
    BY <1>4, <1>5

LEMMA Leaves ==
  ASSUME Inv, NEW t \in Threads, NEW k \in Kinds,
         NEW p \in Prompts, p.msg \notin tangled => At(t, k, p), Elsewhere(t),
         \A u \in Threads \ {t} : queue'[u] = queue[u],
         \A j \in Kinds, q \in Prompts :
           q.msg # p.msg => (At(t, j, q)' <=> At(t, j, q)),
         \A j \in Kinds, q \in Prompts : At(t, j, q)' => q.msg # p.msg,
         p.msg \notin tangled /\ p.msg \in ToSet(book'.list) =>
           book'.msg[p.msg].status \notin {"queued", "working"},
         Answers(p.msg)', BookOK(book, tangled)', SameRecords({p.msg}),
         UNCHANGED tangled, Carries
  PROVE  KnownOK' /\ AnswersOK' /\ PlacedOK' /\ OnePlace' /\ ShownOK'
  <1>1. p.msg \in Msgs
    BY SomeFacts
  <1>2. SamePlaces({p.msg})
    BY PlacesAt
  <1>3. ASSUME NEW u \in Threads, NEW j \in Kinds, NEW q \in Prompts,
               At(u, j, q)'
        PROVE  q.msg # p.msg
    <2>1. u # t => At(u, j, q)
      BY <1>3, PlacesElsewhere
    <2>2. q.msg = p.msg => At(t, k, p)
      BY <1>3 DEF At
    <2> QED
      BY <1>3, <2>1, <2>2, SolePlace
  <1>4. Placed({p.msg})'
    BY <1>3 DEF Placed, Absent
  <1> QED
    BY <1>1, <1>2, <1>4, Moves

LEMMA QueueHas ==
  ASSUME Inv, NEW t \in Threads, NEW i \in DOMAIN queue[t]
  PROVE  /\ queue[t][i] \in Prompts
         /\ queue[t][i].msg \notin tangled => At(t, "queue", queue[t][i])
  BY DEF Inv, TypeOK, At, Has

LEMMA CancelKeeps ==
  ASSUME Inv, NEW t \in Threads, NEW i \in DOMAIN queue[t], CancelQueued(t, i)
  PROVE  Inv'
  <1>1. PICK p, q : p = queue[t][i] /\ q = RemoveAt(queue[t], i)
    OBVIOUS
  <1>2. /\ p \in Prompts /\ IsPeer(p)
        /\ p.msg \notin tangled => At(t, "queue", p)
    BY <1>1, QueueHas, SomeFacts DEF Kinds
  <1>3. /\ queue' = [queue EXCEPT ![t] = q]
        /\ book' = Ended(book, p, "cancelled")
        /\ paused' = [paused EXCEPT ![t] = @ /\ Len(queue[t]) > 1]
        /\ UNCHANGED <<on, alone, revokes, stage, base, conv, kick, send, arm, turn>>
        /\ UNCHANGED <<live, floating, answers, tangled>> /\ Carries
    BY <1>1, <1>2, CarriesKept DEF CancelQueued, policy, provVars, history
  <1>4. queue \in [Threads -> Seq(Prompts)] /\ NoTwice(queue[t], tangled)
        /\ paused \in [Threads -> BOOLEAN]
    BY DEF Inv, TypeOK, NoneTwice
  <1>5. /\ q \in Seq(Prompts) /\ NoTwice(q, tangled)
        /\ \A x : Has(queue[t], x) <=> Has(q, x) \/ x = p
        /\ \A x : Has(q, x) => x.msg # p.msg \/ x.msg \in tangled
    BY <1>1, <1>4, RemoveHas
  <1>6. queue'[t] = q /\ \A u \in Threads \ {t} : queue'[u] = queue[u]
    BY <1>3, <1>4
  <1>7. /\ BookOK(book, tangled)' /\ SameRecords({p.msg}) /\ Answers(p.msg)'
        /\ p.msg \notin tangled =>
             (p.msg \in ToSet(book'.list) => book'.msg[p.msg].status = "cancelled")
    <2>1. "cancelled" \in Ends /\ "queue" \in Kinds
      BY DEF Ends, Final, Kinds
    <2> QED
      BY <1>2, <1>3, <2>1, EndsAt
  <1>8. Elsewhere(t)
    BY <1>3 DEF Elsewhere
  <1>9. \A j \in Kinds, x \in Prompts :
          x.msg # p.msg => (At(t, j, x)' <=> At(t, j, x))
    BY <1>3, <1>5, <1>6 DEF At, InHand, IsLost, IsLeft
  <1>10. \A j \in Kinds, x \in Prompts : At(t, j, x)' => x.msg # p.msg
    <2> SUFFICES ASSUME NEW j \in Kinds, NEW x \in Prompts, At(t, j, x)',
                        x.msg = p.msg
                 PROVE  FALSE
      OBVIOUS
    <2>1. j # "queue" /\ p.msg \notin tangled
      BY <1>3, <1>5, <1>6 DEF At
    <2>2. At(t, j, x) /\ At(t, "queue", p)
      BY <1>2, <1>3, <2>1 DEF At, InHand, IsLost, IsLeft
    <2> QED
      BY <1>2, <2>1, <2>2, SolePlace DEF Kinds
  <1>11. KnownOK' /\ AnswersOK' /\ PlacedOK' /\ OnePlace' /\ ShownOK'
    <2>1. "queue" \in Kinds
      BY DEF Kinds
    <2>2. p.msg \notin tangled /\ p.msg \in ToSet(book'.list) =>
            book'.msg[p.msg].status \notin {"queued", "working"}
      BY <1>7
    <2> QED
      BY <1>2, <1>3, <1>6, <1>7, <1>8, <1>9, <1>10, <2>1, <2>2, Leaves
  <1>12. NoneTwice' /\ Control'
    BY <1>3, <1>5, <1>6, ControlKept DEF Inv, NoneTwice
  <1>13. TypeOK'
    <2>1. queue' \in [Threads -> Seq(Prompts)]
      BY <1>3, <1>4, <1>5
    <2>2. paused' \in [Threads -> BOOLEAN]
      BY <1>3, <1>4
    <2> QED
      BY <1>3, <1>7, <2>1, <2>2 DEF Inv, TypeOK, BookOK
  <1> QED
    BY <1>7, <1>11, <1>12, <1>13 DEF Inv

LEMMA ClearKeeps ==
  ASSUME Inv, NEW t \in Threads, ClearQueue(t)
  PROVE  Inv'
  <1>1. PICK q, e, E, M :
          /\ q = queue[t] /\ e = <<>>
          /\ E = {p.msg : p \in {x \in ToSet(queue[t]) : IsPeer(x) /\ Listed(book, x)}}
          /\ M = {p.msg : p \in ToSet(queue[t])}
    OBVIOUS
  <1>2. /\ queue' = [queue EXCEPT ![t] = e]
        /\ book' = AllEnded(book, E, "cancelled")
        /\ paused' = [paused EXCEPT ![t] = FALSE]
        /\ UNCHANGED <<on, alone, revokes, stage, base, conv, kick, send, arm, turn>>
        /\ UNCHANGED <<live, floating, answers, tangled>> /\ Carries
    BY <1>1, CarriesKept DEF ClearQueue, policy, provVars, history
  <1>3. queue \in [Threads -> Seq(Prompts)] /\ paused \in [Threads -> BOOLEAN]
    BY DEF Inv, TypeOK
  <1>4. queue'[t] = e /\ \A u \in Threads \ {t} : queue'[u] = queue[u]
    BY <1>2, <1>3
  <1>5. \A p \in ToSet(q) :
          /\ p \in Prompts /\ p.msg \in Msgs /\ Known(p.msg) /\ IsPeer(p)
          /\ p.msg \notin tangled =>
               /\ At(t, "queue", p)
               /\ p.msg \in ToSet(book.list) <=> Listed(book, p)
    <2> SUFFICES ASSUME NEW i \in DOMAIN q, NEW p, p = q[i]
                 PROVE  /\ p \in Prompts /\ p.msg \in Msgs /\ Known(p.msg)
                        /\ IsPeer(p)
                        /\ p.msg \notin tangled =>
                             /\ At(t, "queue", p)
                             /\ p.msg \in ToSet(book.list) <=> Listed(book, p)
      BY DEF ToSet
    <2>1. /\ p \in Prompts /\ "queue" \in Kinds
          /\ p.msg \notin tangled => At(t, "queue", p)
      BY <1>1, QueueHas DEF Kinds
    <2>2. p.msg \in Msgs /\ Known(p.msg) /\ IsPeer(p)
      BY <2>1, SomeFacts
    <2> QED
      BY <2>1, <2>2, PlaceFacts
  <1>6. /\ E \subseteq M \cap ToSet(book.list) /\ M \subseteq Msgs
        /\ \A m \in M : m \notin tangled /\ m \in ToSet(book.list) => m \in E
    BY <1>1, <1>5 DEF Listed
  <1>7. /\ BookOK(book', tangled) /\ book'.list = book.list /\ book'.id = book.id
        /\ \A m \in Msgs :
             /\ book'.msg[m].from = book.msg[m].from
             /\ book'.msg[m].status = IF m \in E THEN "cancelled"
                                      ELSE book.msg[m].status
    <2>1. "cancelled" \in Ends /\ E \in SUBSET ToSet(book.list) /\ BookOK(book, tangled)
          /\ tangled \subseteq Msgs
      BY <1>6 DEF Ends, Final, Inv, TypeOK
    <2>2. \A m \in E : book.msg[m].status # "held"
      BY <1>1, <1>5 DEF Known
    <2>3. book' = AllEnded(book, E, "cancelled")
      BY <1>2
    <2> DEFINE a == AllEnded(book, E, "cancelled")
    <2>4. /\ BookOK(a, tangled) /\ a.list = book.list /\ a.id = book.id
          /\ \A m \in Msgs :
               /\ a.msg[m].from = book.msg[m].from
               /\ a.msg[m].status = IF m \in E THEN "cancelled"
                                    ELSE book.msg[m].status
      BY <2>1, <2>2, AllEndedOK
    <2> HIDE DEF a
    <2>5. book' = a
      BY <2>3 DEF a
    <2> QED
      BY <2>4, <2>5
  <1>8. SameRecords(M)
    <2>1. \A m \in M : Known(m) => Known(m)'
      BY <1>6, <1>7 DEF Known
    <2> QED
      BY <1>2, <1>6, <1>7, <2>1, RecordsKept DEF history
  <1>9. Elsewhere(t)
    BY <1>2 DEF Elsewhere
  <1>10. \A j \in Kinds, x \in Prompts : At(t, j, x)' <=> j # "queue" /\ At(t, j, x)
    BY <1>1, <1>2, <1>4 DEF At, InHand, IsLost, IsLeft, Has
  <1>11. \A j \in Kinds, x \in Prompts : j = "queue" /\ At(t, j, x) => x.msg \in M
    BY <1>1 DEF At, Has, ToSet
  <1>12. SamePlaces(M)
    BY <1>2, <1>4, <1>9, <1>10, <1>11, PlacesAt
  <1>13. Placed(M)'
    <2> SUFFICES ASSUME NEW m \in M
                 PROVE  Placed({m})'
      BY DEF Placed
    <2>1. PICK p \in Prompts :
            p.msg = m /\ (m \notin tangled => At(t, "queue", p))
      BY <1>1, <1>5
    <2>2. m \in Msgs /\ "queue" \in Kinds
      BY <1>6 DEF Kinds
    <2>3. ASSUME NEW u \in Threads, NEW j \in Kinds, NEW x \in Prompts,
                 At(u, j, x)', x.msg = m
          PROVE  FALSE
      <3>0. At(t, "queue", p)
        BY <1>2, <2>1, <2>3 DEF At
      <3>1. CASE u = t
        BY <1>10, <2>1, <2>2, <2>3, <3>0, <3>1, SolePlace
      <3>2. CASE u # t
        <4>1. At(u, j, x)
          BY <1>2, <1>4, <1>9, <2>3, <3>2, PlacesElsewhere
        <4> QED
          BY <2>1, <2>2, <2>3, <3>0, <3>2, <4>1, SolePlace
      <3> QED
        BY <3>1, <3>2
    <2>4. \/ m \in tangled'
          \/ m \in ToSet(book'.list) => book'.msg[m].status = "cancelled"
      BY <1>2, <1>6, <1>7, <2>2
    <2>5. Answers(m)'
      <3>1. book'.msg[m].status \in {"none", "held"} =>
              book'.msg[m].status = book.msg[m].status
        BY <1>7, <2>2
      <3> QED
        BY <1>2, <2>2, <3>1 DEF Inv, AnswersOK, Answers
    <2>6. "cancelled" \in Ends
      BY DEF Ends, Final
    <2> QED
      BY <2>2, <2>3, <2>4, <2>5, <2>6, Vanishes
  <1>14. KnownOK' /\ AnswersOK' /\ PlacedOK' /\ OnePlace' /\ ShownOK'
    BY <1>2, <1>6, <1>7, <1>8, <1>12, <1>13, Moves
  <1>15. e \in Seq(Prompts) /\ NoTwice(e, tangled)
    BY <1>1 DEF NoTwice
  <1>16. NoneTwice' /\ Control'
    BY <1>2, <1>4, <1>15, ControlKept DEF Inv, NoneTwice
  <1>17. TypeOK'
    <2>1. queue' \in [Threads -> Seq(Prompts)]
      BY <1>2, <1>3, <1>15
    <2>2. paused' \in [Threads -> BOOLEAN]
      BY <1>2, <1>3
    <2> QED
      BY <1>2, <1>7, <2>1, <2>2 DEF Inv, TypeOK, BookOK
  <1> QED
    BY <1>2, <1>7, <1>14, <1>16, <1>17 DEF Inv

LEMMA RestartKeeps ==
  ASSUME Inv, Restart
  PROVE  Inv'
  <1>1. PICK e, E : e = <<>> /\ E = {m \in ToSet(book.list) :
                                      book.msg[m].status \in Ongoing}
    OBVIOUS
  <1>2. /\ book' = AllEnded(book, E, "interrupted")
        /\ queue' = [t \in Threads |-> e] /\ paused' = [t \in Threads |-> FALSE]
        /\ base' = [t \in Threads |-> "ready"] /\ conv' = [t \in Threads |-> FALSE]
        /\ kick' = [t \in Threads |-> FALSE] /\ send' = [t \in Threads |-> Idle]
        /\ arm' = [t \in Threads |-> NoPrompt] /\ turn' = [t \in Threads |-> NoPrompt]
        /\ live' = [t \in Threads |-> NoPrompt] /\ floating' = [t \in Threads |-> {}]
        /\ UNCHANGED <<on, alone, revokes, stage, answers, tangled>>
    BY <1>1 DEF Restart, policy, history
  <1>3. e \in Seq(Prompts) /\ NoTwice(e, tangled) /\ \A x : ~Has(e, x)
    BY <1>1 DEF NoTwice, Has
  <1>4. /\ BookOK(book', tangled) /\ book'.list = book.list /\ book'.id = book.id
        /\ \A m \in Msgs :
             /\ book'.msg[m].from = book.msg[m].from
             /\ book'.msg[m].status = IF m \in E THEN "interrupted"
                                      ELSE book.msg[m].status
    <2>1. "interrupted" \in Ends /\ E \in SUBSET ToSet(book.list) /\ BookOK(book, tangled)
          /\ tangled \subseteq Msgs
      BY <1>1 DEF Ends, Final, Inv, TypeOK
    <2>2. \A m \in E : book.msg[m].status # "held"
      BY <1>1 DEF Ongoing
    <2>3. book' = AllEnded(book, E, "interrupted")
      BY <1>2
    <2> QED
      BY <2>1, <2>2, <2>3, AllEndedOK
  <1>5. SameRecords(Msgs)
    <2>1. \A m \in Msgs : Known(m) => Known(m)'
      BY <1>4 DEF Known
    <2> QED
      BY <1>2, <1>4, <2>1, RecordsKept DEF history
  <1>6. Idle.at = "idle" /\ Idle \in [at : SendSteps, what : Prompts, moved : BOOLEAN]
    BY PromptFacts DEF Idle, SendSteps
  <1>7. \A t \in Threads, k \in Kinds, p \in Prompts : ~At(t, k, p)'
    BY <1>2, <1>3, <1>6 DEF At, InHand, IsLost, IsLeft
  <1>8. SamePlaces(Msgs)
    <2>1. \A t \in Threads, k \in Kinds, p \in Prompts : At(t, k, p) => p.msg \in Msgs
      BY PlaceFacts
    <2> QED
      BY <1>7, <2>1 DEF SamePlaces
  <1>9. Placed(Msgs)'
    <2> SUFFICES ASSUME NEW m \in Msgs
                 PROVE  Answers(m)' /\ Absent(m)'
      BY DEF Placed
    <2>1. Answers(m)'
      <3>1. book'.msg[m].status \in {"none", "held"} =>
              book'.msg[m].status = book.msg[m].status
        BY <1>4
      <3> QED
        BY <1>2, <3>1 DEF Inv, AnswersOK, Answers
    <2>2. m \in ToSet(book'.list) => book'.msg[m].status \notin {"queued", "working"}
      BY <1>1, <1>4 DEF Ongoing
    <2> QED
      BY <1>7, <2>1, <2>2 DEF Absent
  <1>10. KnownOK' /\ AnswersOK' /\ PlacedOK' /\ OnePlace' /\ ShownOK'
    BY <1>2, <1>4, <1>5, <1>6, <1>8, <1>9, Moves DEF Carries
  <1>11. NoneTwice'
    BY <1>2, <1>3 DEF NoneTwice
  <1>12. Control'
    BY <1>2, <1>6 DEF Control, Steady
  <1>13. TypeOK'
    <2>1. queue' \in [Threads -> Seq(Prompts)]
      BY <1>2, <1>3
    <2>2. {} \in SUBSET Prompts /\ NoPrompt \in Prompts
      BY PromptFacts
    <2>3. /\ base' \in [Threads -> {"ready", "working"}]
          /\ {paused', conv', kick'} \subseteq [Threads -> BOOLEAN]
          /\ {arm', turn'} \subseteq [Threads -> Prompts]
          /\ live' \in [Threads -> Prompts]
          /\ floating' \in [Threads -> SUBSET Prompts]
      BY <1>2, <2>2
    <2>4. send' \in [Threads -> [at : SendSteps, what : Prompts, moved : BOOLEAN]]
      BY <1>2, <1>6
    <2> QED
      BY <1>2, <1>4, <2>1, <2>3, <2>4 DEF Inv, TypeOK, BookOK
  <1> QED
    BY <1>2, <1>4, <1>10, <1>11, <1>12, <1>13 DEF Inv

-----------------------------------------------------------------------------
(* The drain.                                                              *)

LEMMA GotoFacts ==
  ASSUME TypeOK, NEW t \in Threads, NEW step \in SendSteps, Goto(t, step)
  PROVE  /\ send' \in [Threads -> [at : SendSteps, what : Prompts, moved : BOOLEAN]]
         /\ send'[t].at = step /\ send'[t].what = send[t].what
         /\ send'[t].moved = send[t].moved
         /\ \A u \in Threads \ {t} : send'[u] = send[u]
  <1>1. send \in [Threads -> [at : SendSteps, what : Prompts, moved : BOOLEAN]]
    BY DEF TypeOK
  <1> QED
    BY <1>1 DEF Goto

LEMMA IdleFacts ==
  ASSUME TypeOK, NEW t \in Threads, send' = [send EXCEPT ![t] = Idle]
  PROVE  /\ send' \in [Threads -> [at : SendSteps, what : Prompts, moved : BOOLEAN]]
         /\ send'[t].at = "idle"
         /\ \A u \in Threads \ {t} : send'[u] = send[u]
  <1>1. send \in [Threads -> [at : SendSteps, what : Prompts, moved : BOOLEAN]]
    BY DEF TypeOK
  <1>2. Idle.at = "idle" /\ Idle \in [at : SendSteps, what : Prompts, moved : BOOLEAN]
    BY PromptFacts DEF Idle, SendSteps
  <1> HIDE DEF Idle
  <1> QED
    BY <1>1, <1>2

LEMMA KickedType ==
  ASSUME TypeOK, NEW t \in Threads, Kicked(t)
  PROVE  kick' \in [Threads -> BOOLEAN]
  <1>1. kick \in [Threads -> BOOLEAN]
    BY DEF TypeOK
  <1> QED
    BY <1>1 DEF Kicked

LEMMA PausesType ==
  ASSUME TypeOK, NEW t \in Threads, Pauses(t)
  PROVE  paused' \in [Threads -> BOOLEAN]
  <1>1. paused \in [Threads -> BOOLEAN]
    BY DEF TypeOK
  <1> QED
    BY <1>1 DEF Pauses

LEMMA FailureEnds == \A p : Failure(p) \in Ends
  BY DEF Failure, Ends, Final

\* A prompt in hand is nowhere else.
LEMMA HandOnly ==
  ASSUME Inv, NEW t \in Threads, send[t].at \in {"taken", "checked", "busy"}
  PROVE  /\ send[t].what \in Prompts /\ "hand" \in Kinds /\ IsPeer(send[t].what)
         /\ Known(send[t].what.msg)
         /\ \A q \in Prompts : ~IsLost(t, q) /\ ~IsLeft(t, q)
         /\ send[t].what.msg \notin tangled =>
              /\ At(t, "hand", send[t].what)
              /\ arm[t] # send[t].what /\ turn[t] # send[t].what
              /\ \A j \in Kinds, q \in Prompts :
                   At(t, j, q) /\ q.msg = send[t].what.msg => j = "hand"
  <1>1. /\ send[t].what \in Prompts /\ "hand" \in Kinds
        /\ send[t].what.msg \notin tangled => At(t, "hand", send[t].what)
    BY PromptTypes DEF Inv, At, InHand, Kinds
  <1>2. /\ IsPeer(send[t].what) /\ send[t].what # NoPrompt
        /\ Known(send[t].what.msg)
    BY <1>1, SomeFacts
  <1>3. ASSUME send[t].what.msg \notin tangled
        PROVE  \A j \in Kinds, q \in Prompts :
                 At(t, j, q) /\ q.msg = send[t].what.msg => j = "hand"
    BY <1>1, <1>3, SolePlace
  <1>4. send[t].what.msg \notin tangled =>
          arm[t] # send[t].what /\ turn[t] # send[t].what
    BY <1>1, <1>2, <1>3 DEF At, Kinds
  <1> QED
    BY <1>1, <1>2, <1>3, <1>4 DEF IsLost, IsLeft

LEMMA TakesKeeps ==
  ASSUME Inv, NEW t \in Threads, NEW reached \in BOOLEAN,
         DrainTakes(t, reached)
  PROVE  Inv'
  <1>1. /\ UNCHANGED <<on, alone, revokes, book, stage, paused, base, conv, arm, turn>>
        /\ UNCHANGED <<live, floating, answers, tangled>>
        /\ send[t].at = "idle" /\ kick' = [kick EXCEPT ![t] = FALSE]
    BY DEF DrainTakes, policy, provVars, history
  <1>2. BookOK(book, tangled)' /\ \A M : SameRecords(M)
    BY <1>1, RecordsSame
  <1>3. kick' \in [Threads -> BOOLEAN]
    <2>1. kick \in [Threads -> BOOLEAN]
      BY DEF Inv, TypeOK
    <2> QED
      BY <1>1, <2>1
  <1>4. CASE UNCHANGED <<queue, send>>
    <2>1. Control'
      BY <1>1, <1>4, ControlKept DEF Inv
    <2>2. TypeOK'
      BY <1>1, <1>3, <1>4 DEF Inv, TypeOK
    <2> QED
      BY <1>1, <1>2, <1>4, <2>1, <2>2, StillKeeps
  <1>5. CASE ~UNCHANGED <<queue, send>>
    <2>1. PICK p, q : p = Head(queue[t]) /\ q = Tail(queue[t])
      OBVIOUS
    <2>2. /\ queue' = [queue EXCEPT ![t] = q] /\ queue[t] # <<>> /\ ~Busy(t)
          /\ send' = [send EXCEPT ![t] = [Idle EXCEPT !.at = "taken", !.what = p]]
      BY <1>5, <2>1 DEF DrainTakes
    <2>3. /\ queue \in [Threads -> Seq(Prompts)] /\ NoTwice(queue[t], tangled)
          /\ send \in [Threads -> [at : SendSteps, what : Prompts, moved : BOOLEAN]]
      BY DEF Inv, TypeOK, NoneTwice
    <2>4. /\ p \in Prompts /\ q \in Seq(Prompts)
          /\ \A x : Has(queue[t], x) <=> Has(q, x) \/ x = p
          /\ NoTwice(q, tangled) 
          /\ \A x : Has(q, x) => x.msg # p.msg \/ x.msg \in tangled
      BY <2>1, <2>2, <2>3, TailHas
    <2>5. /\ p.msg \notin tangled => At(t, "queue", p)
          /\ "queue" \in Kinds /\ "hand" \in Kinds
      BY <2>4 DEF At, Kinds
    <2>6. /\ IsPeer(p) /\ Known(p.msg)
          /\ p.msg \notin tangled => Fact(t, "queue", p)
      BY <2>4, <2>5, SomeFacts, PlaceFacts
    <2>7. queue'[t] = q /\ \A u \in Threads \ {t} : queue'[u] = queue[u]
      BY <2>2, <2>3
    <2>8. /\ send' \in [Threads -> [at : SendSteps, what : Prompts, moved : BOOLEAN]]
          /\ send'[t].at = "taken" /\ send'[t].what = p
          /\ ~send'[t].moved
          /\ \A u \in Threads \ {t} : send'[u] = send[u]
      <3> DEFINE r == [Idle EXCEPT !.at = "taken", !.what = p]
      <3>1. r \in [at : SendSteps, what : Prompts, moved : BOOLEAN]
            /\ r.at = "taken" /\ r.what = p /\ ~r.moved
        BY <2>4 DEF Idle, SendSteps
      <3>2. send' = [send EXCEPT ![t] = r]
        BY <2>2
      <3> HIDE DEF r
      <3> QED
        BY <2>3, <3>1, <3>2
    <2>9. Elsewhere(t)
      BY <1>1, <2>8 DEF Elsewhere
    <2>10. \A j \in Kinds, x \in Prompts :
             At(t, j, x)' <=> \/ j = "hand" /\ x = p /\ p.msg \notin tangled
                              \/ j # "queue" /\ At(t, j, x)
                              \/ j = "queue" /\ Has(q, x) /\ x.msg \notin tangled
      BY <1>1, <2>7, <2>8 DEF At, InHand, IsLost, IsLeft
    <2>11. \A j \in Kinds, x \in Prompts :
             x.msg # p.msg => (At(t, j, x)' <=> At(t, j, x))
      BY <2>4, <2>10 DEF At
    <2>12. \A j \in Kinds, x \in Prompts :
             At(t, j, x)' /\ x.msg = p.msg => j = "hand" /\ x = p
      <3>1. \A j \in Kinds, x \in Prompts :
              At(t, j, x) /\ x.msg = p.msg => j = "queue"
        <4> SUFFICES ASSUME NEW j \in Kinds, NEW x \in Prompts, At(t, j, x),
                            x.msg = p.msg
                     PROVE  j = "queue"
          OBVIOUS
        <4>1. At(t, "queue", p)
          BY <2>5 DEF At
        <4> QED
          BY <2>4, <2>5, <4>1, SolePlace
      <3> QED
        BY <2>4, <2>10, <3>1
    <2>13. p.msg \notin tangled => At(t, "hand", p)'
      BY <2>4, <2>5, <2>10
    <2>14. (p.msg \notin tangled => Fact(t, "hand", p)') /\ Answers(p.msg)'
      <3>1. p.msg \notin tangled => Fact(t, "hand", p)'
        BY <1>1, <2>6 DEF Fact, Fits, Known
      <3>2. Answers(p.msg)'
        BY <1>1, <2>6 DEF Inv, AnswersOK, Answers, Known
      <3> QED
        BY <3>1, <3>2
    <2>15. SameRecords({p.msg})
      BY <1>2
    <2>16. KnownOK' /\ AnswersOK' /\ PlacedOK' /\ OnePlace' /\ ShownOK'
      <3>1. Carries
        BY <1>1, <2>8, <2>9, CarriesAt
      <3> QED
        BY <1>1, <1>2, <2>4, <2>5, <2>7, <2>9, <2>11, <2>12, <2>13, <2>14, <2>15,
           <3>1, Advance
    <2>17. Steady(t)'
      BY <1>1, <2>6, <2>8 DEF Inv, Control, Steady
    <2>18. Control' /\ NoneTwice'
      BY <1>1, <2>4, <2>7, <2>9, <2>17, ControlAt DEF Inv, NoneTwice
    <2>19. TypeOK'
      <3>1. queue' \in [Threads -> Seq(Prompts)]
        BY <2>2, <2>3, <2>4
      <3> QED
        BY <1>1, <1>3, <2>8, <3>1 DEF Inv, TypeOK
    <2> QED
      BY <1>2, <2>16, <2>18, <2>19 DEF Inv
  <1> QED
    BY <1>4, <1>5

LEMMA DropsKeeps ==
  ASSUME Inv, NEW t \in Threads, send[t].at \in {"taken", "checked"}, Drops(t)
  PROVE  Inv'
  <1>1. PICK p, st : p = send[t].what /\ st = Failure(p)
    OBVIOUS
  <1>2. /\ UNCHANGED <<on, alone, revokes, stage, queue, paused, base, conv, arm, turn>>
        /\ UNCHANGED <<live, floating, answers, tangled>> /\ Kicked(t)
        /\ book' = Ended(book, p, st) /\ send' = [send EXCEPT ![t] = Idle]
    BY <1>1 DEF Drops, policy, provVars, history
  <1>3. /\ p \in Prompts /\ "hand" \in Kinds
        /\ \A q \in Prompts : ~IsLost(t, q) /\ ~IsLeft(t, q)
        /\ p.msg \notin tangled =>
             /\ At(t, "hand", p)
             /\ \A j \in Kinds, q \in Prompts :
                  At(t, j, q) /\ q.msg = p.msg => j = "hand"
    BY <1>1, HandOnly
  <1>4. /\ BookOK(book, tangled)' /\ SameRecords({p.msg}) /\ Answers(p.msg)'
        /\ p.msg \notin tangled =>
             (p.msg \in ToSet(book'.list) => book'.msg[p.msg].status = st)
    <2>1. st \in Ends
      BY <1>1, FailureEnds
    <2> QED
      BY <1>2, <1>3, <2>1, EndsAt
  <1>5. /\ send' \in [Threads -> [at : SendSteps, what : Prompts, moved : BOOLEAN]]
        /\ send'[t].at = "idle"
        /\ \A u \in Threads \ {t} : send'[u] = send[u]
    BY <1>2, IdleFacts DEF Inv
  <1>6. Elsewhere(t)
    BY <1>2, <1>5 DEF Elsewhere
  <1>7. \A j \in Kinds, x \in Prompts : At(t, j, x)' <=> j # "hand" /\ At(t, j, x)
    BY <1>2, <1>3, <1>5 DEF At, InHand, IsLost, IsLeft
  <1>8. \A j \in Kinds, x \in Prompts :
          x.msg # p.msg => (At(t, j, x)' <=> At(t, j, x))
    BY <1>1, <1>7 DEF At, InHand
  <1>9. \A j \in Kinds, x \in Prompts : At(t, j, x)' => x.msg # p.msg
    BY <1>3, <1>7 DEF At
  <1>10. p.msg \notin tangled /\ p.msg \in ToSet(book'.list) =>
           book'.msg[p.msg].status \notin {"queued", "working"}
    <2>1. st \notin {"queued", "working"}
      BY <1>1 DEF Failure
    <2> QED
      BY <1>4, <2>1
  <1>11. KnownOK' /\ AnswersOK' /\ PlacedOK' /\ OnePlace' /\ ShownOK'
    <2>1. Carries
      BY <1>2, <1>5, <1>6, CarriesAt
    <2> QED
      BY <1>2, <1>3, <1>4, <1>6, <1>8, <1>9, <1>10, <2>1, Leaves
  <1>12. Steady(t)'
    BY <1>2, <1>5 DEF Inv, Control, Steady
  <1>13. Control' /\ NoneTwice'
    BY <1>2, <1>6, <1>12, ControlAt DEF Inv, NoneTwice
  <1>14. TypeOK'
    <2>1. kick' \in [Threads -> BOOLEAN]
      BY <1>2, KickedType DEF Inv
    <2> QED
      BY <1>2, <1>4, <1>5, <2>1 DEF Inv, TypeOK, BookOK
  <1> QED
    BY <1>4, <1>11, <1>13, <1>14 DEF Inv

\* A send that goes on with its prompt in hand.
LEMMA HandKeeps ==
  ASSUME Inv, NEW t \in Threads, send[t].at \in {"taken", "checked"},
         NEW step \in {"checked", "busy"}, Goto(t, step),
         UNCHANGED <<policy, book, stage, queue, paused, base, conv, kick, arm,
                     turn, provVars, history>>
  PROVE  Inv'
  <1>1. /\ UNCHANGED <<on, alone, revokes, book, stage, paused, base, conv, arm, turn>>
        /\ UNCHANGED <<live, floating, answers, tangled, queue, kick>>
    BY DEF policy, provVars, history
  <1>2. /\ send' \in [Threads -> [at : SendSteps, what : Prompts, moved : BOOLEAN]]
        /\ send'[t].at = step /\ send'[t].what = send[t].what
        /\ send'[t].moved = send[t].moved
        /\ \A u \in Threads \ {t} : send'[u] = send[u]
    <2>1. step \in SendSteps
      BY DEF SendSteps
    <2> QED
      BY <2>1, GotoFacts DEF Inv
  <1>3. Elsewhere(t)
    BY <1>1, <1>2 DEF Elsewhere
  <1>4. \A j \in Kinds, x \in Prompts : At(t, j, x)' <=> At(t, j, x)
    BY <1>1, <1>2 DEF At, InHand, IsLost, IsLeft
  <1>5. SamePlaces({})
    BY <1>1, <1>3, <1>4, PlacesAt
  <1>6. BookOK(book, tangled)' /\ SameRecords({})
    BY <1>1, RecordsSame
  <1>7. Placed({})'
    BY DEF Placed
  <1>8. KnownOK' /\ AnswersOK' /\ PlacedOK' /\ OnePlace' /\ ShownOK'
    <2>1. Carries
      BY <1>1, <1>2, <1>3, CarriesAt
    <2> QED
      BY <1>5, <1>6, <1>7, <2>1, Moves
  <1>9. Steady(t)'
    BY <1>1, <1>2 DEF Inv, Control, Steady
  <1>10. Control' /\ NoneTwice'
    BY <1>1, <1>3, <1>9, ControlAt DEF Inv, NoneTwice
  <1>11. TypeOK'
    BY <1>1, <1>2 DEF Inv, TypeOK
  <1> QED
    BY <1>6, <1>8, <1>10, <1>11 DEF Inv

LEMMA ChecksKeeps ==
  ASSUME Inv, NEW t \in Threads, DrainChecks(t) \/ TurnRuns(t)
  PROVE  Inv'
  <1>1. CASE TurnRuns(t)
    BY <1>1, HandKeeps DEF TurnRuns
  <1>2. CASE DrainChecks(t) /\ Drops(t)
    BY <1>2, DropsKeeps DEF DrainChecks
  <1>3. CASE DrainChecks(t) /\ ~Drops(t)
    BY <1>3, HandKeeps DEF DrainChecks
  <1> QED
    BY <1>1, <1>2, <1>3

LEMMA OpensKeeps ==
  ASSUME Inv, NEW t \in Threads, Opens(t)
  PROVE  Inv'
  <1>1. /\ UNCHANGED <<on, alone, revokes, book, stage, paused, base, send, arm, turn>>
        /\ UNCHANGED <<live, floating, answers, tangled, queue, kick>>
        /\ send[t].at = "checked" /\ conv' = [conv EXCEPT ![t] = TRUE]
    BY DEF Opens, policy, provVars, history
  <1>2. BookOK(book, tangled)' /\ SameRecords({})
    BY <1>1, RecordsSame
  <1>3. conv \in [Threads -> BOOLEAN]
    BY DEF Inv, TypeOK
  <1>4. conv' \in [Threads -> BOOLEAN] /\ \A u \in Threads \ {t} : conv'[u] = conv[u]
    BY <1>1, <1>3
  <1>5. Elsewhere(t)
    BY <1>1, <1>4 DEF Elsewhere
  <1>6. Steady(t)'
    BY <1>1 DEF Inv, Control, Steady
  <1>7. Control'
    BY <1>5, <1>6, ControlAt DEF Inv
  <1>8. TypeOK'
    BY <1>1, <1>4 DEF Inv, TypeOK
  <1> QED
    BY <1>1, <1>2, <1>7, <1>8, StillKeeps

LEMMA UnopenedKeeps ==
  ASSUME Inv, NEW t \in Threads, Unopened(t)
  PROVE  Inv'
  <1>1. PICK p : p = send[t].what
    OBVIOUS
  <1>2. /\ UNCHANGED <<on, alone, revokes, book, stage, base, conv, arm, turn>>
        /\ UNCHANGED <<live, floating, answers, tangled, queue, kick>>
        /\ send[t].at = "checked" /\ Goto(t, "rejected") /\ Pauses(t)
    BY DEF Unopened, policy, provVars, history
  <1>3. /\ p \in Prompts /\ "hand" \in Kinds /\ Known(p.msg)
        /\ \A q \in Prompts : ~IsLost(t, q) /\ ~IsLeft(t, q)
        /\ p.msg \notin tangled =>
             /\ At(t, "hand", p) /\ arm[t] # p
             /\ \A j \in Kinds, q \in Prompts :
                  At(t, j, q) /\ q.msg = p.msg => j = "hand"
    BY <1>1, <1>2, HandOnly
  <1>4. (p.msg \notin tangled => Fact(t, "hand", p)) /\ "lost" \in Kinds
    BY <1>3, PlaceFacts DEF Kinds
  <1>5. /\ send' \in [Threads -> [at : SendSteps, what : Prompts, moved : BOOLEAN]]
        /\ send'[t].at = "rejected" /\ send'[t].what = p
        /\ \A u \in Threads \ {t} : send'[u] = send[u]
    <2>1. "rejected" \in SendSteps
      BY DEF SendSteps
    <2> QED
      BY <1>1, <1>2, <2>1, GotoFacts DEF Inv
  <1>6. Elsewhere(t)
    BY <1>2, <1>5 DEF Elsewhere
  <1>7. \A j \in Kinds, x \in Prompts :
          At(t, j, x)' <=> \/ j = "lost" /\ x = p /\ p.msg \notin tangled
                           \/ j \notin {"lost", "left", "hand"} /\ At(t, j, x)
    BY <1>2, <1>3, <1>5 DEF At, InHand, IsLost, IsLeft
  <1>8. \A j \in Kinds, x \in Prompts :
          x.msg # p.msg => (At(t, j, x)' <=> At(t, j, x))
    BY <1>1, <1>3, <1>7 DEF At, InHand
  <1>9. \A j \in Kinds, x \in Prompts :
          At(t, j, x)' /\ x.msg = p.msg => j = "lost" /\ x = p
    BY <1>3, <1>7 DEF At
  <1>10. p.msg \notin tangled => At(t, "lost", p)'
    BY <1>3, <1>4, <1>7
  <1>11. (p.msg \notin tangled => Fact(t, "lost", p)') /\ Answers(p.msg)'
    <2>1. p.msg \notin tangled => Fact(t, "lost", p)'
      BY <1>2, <1>4 DEF Fact, Fits, Known
    <2>2. Answers(p.msg)'
      BY <1>2, <1>3 DEF Inv, AnswersOK, Answers, Known
    <2> QED
      BY <2>1, <2>2
  <1>12. BookOK(book, tangled)' /\ SameRecords({p.msg})
    BY <1>2, RecordsSame
  <1>13. KnownOK' /\ AnswersOK' /\ PlacedOK' /\ OnePlace' /\ ShownOK'
    <2>1. Carries
      BY <1>2, <1>5, <1>6, CarriesAt
    <2> QED
      BY <1>2, <1>3, <1>4, <1>6, <1>8, <1>9, <1>10, <1>11, <1>12, <2>1, Advance
  <1>14. Steady(t)'
    <2>1. Steady(t) /\ p = send[t].what /\ send[t].at # "idle"
      BY <1>1, <1>2 DEF Inv, Control
    <2>2. send'[t].at = "rejected" /\ send'[t].what = p
      BY <1>5
    <2>3. UNCHANGED <<live, base, arm, turn, floating, conv>>
      BY <1>2
    <2> QED
      BY <2>1, <2>2, <2>3 DEF Steady
  <1>15. Control' /\ NoneTwice'
    BY <1>2, <1>6, <1>14, ControlAt DEF Inv, NoneTwice
  <1>16. TypeOK'
    <2>1. paused' \in [Threads -> BOOLEAN]
      BY <1>2, PausesType DEF Inv
    <2> QED
      BY <1>2, <1>5, <2>1 DEF Inv, TypeOK
  <1> QED
    BY <1>12, <1>13, <1>15, <1>16 DEF Inv

-----------------------------------------------------------------------------
(* The provider is given the prompt.                                       *)

\* A turn that begins takes the arm with it.
LEMMA BeginsFacts ==
  ASSUME Inv, NEW t \in Threads, NEW p \in Prompts, p # NoPrompt, Begins(t, p),
         live[t] = NoPrompt, UNCHANGED <<answers, tangled>>, NEW a, a = arm[t]
  PROVE  /\ turn[t] = NoPrompt /\ turn'[t] = a /\ arm'[t] = NoPrompt
         /\ live'[t] = p /\ base'[t] = "working" /\ BookOK(book, tangled)'
         /\ {arm', turn'} \subseteq [Threads -> Prompts]
         /\ live' \in [Threads -> Prompts] /\ base' \in [Threads -> {"ready", "working"}]
         /\ \A u \in Threads \ {t} :
              /\ live'[u] = live[u] /\ base'[u] = base[u]
              /\ arm'[u] = arm[u] /\ turn'[u] = turn[u]
         /\ a = NoPrompt => SameRecords({})
         /\ a # NoPrompt =>
              /\ SameRecords({a.msg}) /\ Answers(a.msg)'
              /\ a.msg \notin tangled => At(t, "arm", a) /\ Fact(t, "turn", a)'
  <1>1. /\ {arm, turn} \subseteq [Threads -> Prompts] /\ live \in [Threads -> Prompts]
        /\ base \in [Threads -> {"ready", "working"}]
    BY DEF Inv, TypeOK
  <1>2. NoPrompt \in Prompts /\ ~IsPeer(NoPrompt) /\ a \in Prompts
    BY <1>1, PromptFacts
  <1>3. turn[t] = NoPrompt
    BY DEF Inv, Control, Steady
  <1>4. a # NoPrompt => /\ a.msg \notin tangled => At(t, "arm", a)
                        /\ IsPeer(a) /\ Known(a.msg)
    <2> SUFFICES ASSUME a # NoPrompt
                 PROVE  /\ a.msg \notin tangled => At(t, "arm", a)
                        /\ IsPeer(a) /\ Known(a.msg)
      OBVIOUS
    <2>1. (a.msg \notin tangled => At(t, "arm", a)) /\ "arm" \in Kinds
      BY DEF At, Kinds
    <2> QED
      BY <1>2, <2>1, SomeFacts
  <1>5. /\ live' = [live EXCEPT ![t] = p] /\ base' = [base EXCEPT ![t] = "working"]
        /\ turn' = [turn EXCEPT ![t] = IF IsPeer(a) THEN a ELSE @]
        /\ arm' = [arm EXCEPT ![t] = NoPrompt]
        /\ book' = IF IsPeer(a)
                   THEN Moved(book, a, IF a.reply THEN "replied" ELSE "working")
                   ELSE book
    BY DEF Begins
  <1>6. turn' = [turn EXCEPT ![t] = a]
    BY <1>1, <1>2, <1>3, <1>4, <1>5
  <1>7. /\ turn'[t] = a /\ arm'[t] = NoPrompt /\ live'[t] = p /\ base'[t] = "working"
        /\ {arm', turn'} \subseteq [Threads -> Prompts]
        /\ live' \in [Threads -> Prompts] /\ base' \in [Threads -> {"ready", "working"}]
        /\ \A u \in Threads \ {t} :
             /\ live'[u] = live[u] /\ base'[u] = base[u]
             /\ arm'[u] = arm[u] /\ turn'[u] = turn[u]
    BY <1>1, <1>2, <1>5, <1>6
  <1>8. CASE a = NoPrompt
    BY <1>2, <1>3, <1>5, <1>7, <1>8, RecordsSame
  <1>9. CASE a # NoPrompt
    <2>1. PICK st : st = IF a.reply THEN "replied" ELSE "working"
      OBVIOUS
    <2>2. /\ book' = Moved(book, a, st) /\ st \in {"working", "replying", "replied"}
          /\ (a.msg \notin tangled => At(t, "arm", a)) /\ "arm" \in Kinds
      BY <1>4, <1>5, <1>9, <2>1 DEF Kinds
    <2>3. /\ BookOK(book, tangled)' /\ SameRecords({a.msg})
          /\ book'.id = book.id /\ book'.list = book.list /\ Known(a.msg)'
          /\ book'.msg[a.msg].from = book.msg[a.msg].from
          /\ a.msg \notin tangled =>
               (a.msg \in ToSet(book'.list) => book'.msg[a.msg].status = st)
      BY <1>2, <2>2, MovesAt
    <2>4. a.msg \in Msgs /\ (a.msg \notin tangled => Fact(t, "arm", a))
      BY <1>2, <1>4, <1>9, <2>2, PlaceFacts DEF Known
    <2>5. Answers(a.msg)'
      BY <1>4, <1>9, <2>3, <2>4 DEF Inv, AnswersOK, Answers, Known
    <2>6. ASSUME a.msg \notin tangled
          PROVE  Fact(t, "turn", a)'
      <3>1. a.msg \in ToSet(book'.list) => Fits("turn", a)'
        BY <2>1, <2>3, <2>4, <2>6 DEF Fact, Fits
      <3> QED
        BY <2>3, <2>4, <2>6, <3>1 DEF Fact
    <2> QED
      BY <1>3, <1>7, <1>9, <2>2, <2>3, <2>5, <2>6
  <1> QED
    BY <1>8, <1>9

\* What a turn that begins does, when the send of t is not one that loses its
\* arm by it.
LEMMA BeginsKeeps ==
  ASSUME Inv, NEW t \in Threads, NEW p \in Prompts, p # NoPrompt, Begins(t, p),
         live[t] = NoPrompt, conv[t], UNCHANGED <<answers, tangled, queue, conv>>,
         \A u \in Threads \ {t} : send'[u] = send[u] /\ floating'[u] = floating[u],
         send'[t].what = send[t].what, floating'[t] \subseteq floating[t],
         send'[t].at = "sent" => send'[t].moved,
         send'[t].at \in {"taken", "checked"} => ~send'[t].moved,
         \/ send'[t].at = send[t].at
         \/ send[t].at = "sent" /\ send'[t].at = "took"
  PROVE  /\ BookOK(book, tangled)' /\ KnownOK' /\ AnswersOK' /\ PlacedOK' /\ OnePlace' /\ ShownOK'
         /\ Control' /\ NoneTwice'
  <1>1. PICK a : a = arm[t]
    OBVIOUS
  <1>2. /\ turn[t] = NoPrompt /\ turn'[t] = a /\ arm'[t] = NoPrompt
        /\ live'[t] = p /\ base'[t] = "working" /\ BookOK(book, tangled)'
        /\ \A u \in Threads \ {t} :
             /\ live'[u] = live[u] /\ base'[u] = base[u]
             /\ arm'[u] = arm[u] /\ turn'[u] = turn[u]
        /\ a = NoPrompt => SameRecords({})
        /\ a # NoPrompt =>
             /\ SameRecords({a.msg}) /\ Answers(a.msg)'
             /\ a.msg \notin tangled => At(t, "arm", a) /\ Fact(t, "turn", a)'
    BY <1>1, BeginsFacts
  <1>3. Elsewhere(t) /\ \A u \in Threads \ {t} : queue'[u] = queue[u]
    BY <1>2 DEF Elsewhere
  <1>4. a \in Prompts /\ "arm" \in Kinds /\ "turn" \in Kinds
    BY <1>1, PromptTypes DEF Inv, Kinds
  <1>5. Steady(t)
    BY DEF Inv, Control
  <1>6. \A x \in Prompts : /\ IsLost(t, x)' <=> IsLost(t, x)
                           /\ IsLeft(t, x)' <=> IsLeft(t, x)
    <2> SUFFICES ASSUME NEW x \in Prompts
                 PROVE  /\ IsLost(t, x)' <=> IsLost(t, x)
                        /\ IsLeft(t, x)' <=> IsLeft(t, x)
      OBVIOUS
    <2>1. ~IsLeft(t, x) /\ ~IsLeft(t, x)'
      BY <1>5 DEF Steady, IsLeft
    <2> QED
      BY <2>1 DEF IsLost
  <1>7. \A x \in Prompts : InHand(t, x)' <=> InHand(t, x)
    BY DEF InHand
  <1>8. \A j \in Kinds, x \in Prompts :
          At(t, j, x)' <=> \/ /\ j = "turn" /\ x = a /\ x # NoPrompt
                              /\ x.msg \notin tangled
                           \/ j \notin {"arm", "turn"} /\ At(t, j, x)
    BY <1>1, <1>2, <1>6, <1>7 DEF At
  <1>9. Steady(t)'
    <2>1. /\ live'[t] # NoPrompt /\ base'[t] = "working" /\ arm'[t] = NoPrompt
          /\ \A x \in floating'[t] : IsPeer(x)
      BY <1>2, <1>5 DEF Steady
    <2>2. send'[t].at # "idle" => IsPeer(send'[t].what)
      BY <1>5 DEF Steady
    <2>3. send'[t].at = "rejected" => IsPeer(send'[t].what)
      BY <2>2
    <2>4. /\ send'[t].at = "sent" => send'[t].moved
          /\ send'[t].at \in {"taken", "checked"} => ~send'[t].moved
      OBVIOUS
    <2> QED
      BY <2>1, <2>2, <2>3, <2>4, PromptFacts DEF Steady
  <1>10. Control' /\ NoneTwice' /\ Carries
    BY <1>3, <1>9, ControlAt, CarriesAt DEF Inv, NoneTwice
  <1>11. CASE a = NoPrompt
    <2>1. \A j \in Kinds, x \in Prompts : At(t, j, x)' <=> At(t, j, x)
      BY <1>1, <1>2, <1>8, <1>11 DEF At
    <2>2. SamePlaces({})
      BY <1>3, <2>1, PlacesAt
    <2>3. Placed({})'
      BY DEF Placed
    <2>4. SameRecords({}) /\ BookOK(book, tangled)'
      BY <1>2, <1>11
    <2> QED
      BY <1>10, <2>2, <2>3, <2>4, Moves
  <1>12. CASE a # NoPrompt
    <2>1. /\ SameRecords({a.msg}) /\ BookOK(book, tangled)' /\ Answers(a.msg)'
          /\ a.msg \notin tangled => At(t, "arm", a) /\ Fact(t, "turn", a)'
      BY <1>2, <1>12
    <2>2. \A j \in Kinds, x \in Prompts :
            x.msg # a.msg => (At(t, j, x)' <=> At(t, j, x))
      BY <1>1, <1>2, <1>8 DEF At
    <2>3. \A j \in Kinds, x \in Prompts :
            At(t, j, x)' /\ x.msg = a.msg => j = "turn" /\ x = a
      <3>1. \A j \in Kinds, x \in Prompts :
              At(t, j, x) /\ x.msg = a.msg => j = "arm"
        <4> SUFFICES ASSUME NEW j \in Kinds, NEW x \in Prompts, At(t, j, x),
                            x.msg = a.msg
                     PROVE  j = "arm"
          OBVIOUS
        <4>1. At(t, "arm", a)
          BY <2>1 DEF At
        <4> QED
          BY <1>4, <4>1, SolePlace
      <3> QED
        BY <1>8, <3>1
    <2>4. a.msg \notin tangled => At(t, "turn", a)'
      BY <1>4, <1>8, <1>12
    <2>5. KnownOK' /\ AnswersOK' /\ PlacedOK' /\ OnePlace' /\ ShownOK'
      BY <1>3, <1>4, <1>10, <2>1, <2>2, <2>3, <2>4, Advance
    <2> QED
      BY <1>10, <2>1, <2>5
  <1> QED
    BY <1>11, <1>12

LEMMA AcceptsKeeps ==
  ASSUME Inv, NEW t \in Threads, Accepts(t)
  PROVE  Inv'
  <1>1. PICK p : p = send[t].what
    OBVIOUS
  <1>2. /\ UNCHANGED <<on, alone, revokes, stage, queue, paused, conv, kick>>
        /\ UNCHANGED <<floating, answers, tangled>>
        /\ Begins(t, p) /\ live[t] = NoPrompt /\ send[t].at = "sent" /\ conv[t]
        /\ Goto(t, "took")
    BY <1>1 DEF Accepts, policy, history, Goto
  <1>3. p \in Prompts /\ p # NoPrompt
    BY <1>1, <1>2, PromptTypes, PromptFacts DEF Inv, Control, Steady
  <1>4. /\ send' \in [Threads -> [at : SendSteps, what : Prompts, moved : BOOLEAN]]
        /\ send'[t].at = "took" /\ send'[t].what = p
        /\ \A u \in Threads \ {t} : send'[u] = send[u]
    <2>1. "took" \in SendSteps
      BY DEF SendSteps
    <2> QED
      BY <1>1, <1>2, <2>1, GotoFacts DEF Inv
  <1>5. /\ BookOK(book, tangled)' /\ KnownOK' /\ AnswersOK' /\ PlacedOK'
        /\ OnePlace' /\ ShownOK' /\ Control' /\ NoneTwice'
    BY <1>1, <1>2, <1>3, <1>4, BeginsKeeps
  <1>6. /\ {arm', turn'} \subseteq [Threads -> Prompts]
        /\ live' \in [Threads -> Prompts] /\ base' \in [Threads -> {"ready", "working"}]
    BY <1>2, <1>3, BeginsFacts
  <1>7. TypeOK'
    BY <1>2, <1>4, <1>5, <1>6 DEF Inv, TypeOK, BookOK
  <1> QED
    BY <1>5, <1>7 DEF Inv

\* A prompt that is taken while another turn runs lost its arm to that turn.
LEMMA AcceptsLaterKeeps ==
  ASSUME Inv, NEW t \in Threads, AcceptsLater(t)
  PROVE  Inv'
  <1>1. PICK p : p = send[t].what
    OBVIOUS
  <1>2. /\ UNCHANGED <<on, alone, revokes, book, stage, queue, paused, base, conv>>
        /\ UNCHANGED <<kick, arm, turn, live, answers, tangled>>
        /\ send[t].at = "sent" /\ live[t] # NoPrompt /\ Goto(t, "took")
        /\ floating' = [floating EXCEPT ![t] = @ \cup {p}]
    BY <1>1 DEF AcceptsLater, policy, history
  <1>3. p \in Prompts /\ IsPeer(p) /\ send[t].moved /\ Steady(t)
    BY <1>1, <1>2, PromptTypes DEF Inv, Control, Steady
  <1>4. /\ send' \in [Threads -> [at : SendSteps, what : Prompts, moved : BOOLEAN]]
        /\ send'[t].at = "took" /\ send'[t].what = p
        /\ \A u \in Threads \ {t} : send'[u] = send[u]
    <2>1. "took" \in SendSteps
      BY DEF SendSteps
    <2> QED
      BY <1>1, <1>2, <2>1, GotoFacts DEF Inv
  <1>5. /\ floating' \in [Threads -> SUBSET Prompts]
        /\ floating'[t] = floating[t] \cup {p}
        /\ \A u \in Threads \ {t} : floating'[u] = floating[u]
    <2>1. floating \in [Threads -> SUBSET Prompts]
      BY DEF Inv, TypeOK
    <2> QED
      BY <1>2, <1>3, <2>1
  <1>6. Elsewhere(t)
    BY <1>2, <1>4, <1>5 DEF Elsewhere
  <1>7. \A j \in Kinds, x \in Prompts : At(t, j, x)' <=> At(t, j, x)
    BY <1>2, <1>3, <1>4 DEF At, InHand, IsLost, IsLeft
  <1>8. KnownOK' /\ AnswersOK' /\ PlacedOK' /\ OnePlace' /\ ShownOK'
    <2>1. SamePlaces({})
      BY <1>2, <1>6, <1>7, PlacesAt
    <2>2. BookOK(book, tangled)' /\ SameRecords({})
      BY <1>2, RecordsSame
    <2>3. Placed({})'
      BY DEF Placed
    <2>4. Carries
      BY <1>2, <1>4, <1>6, CarriesAt
    <2> QED
      BY <2>1, <2>2, <2>3, <2>4, Moves
  <1>9. Steady(t)'
    BY <1>2, <1>3, <1>4, <1>5 DEF Steady
  <1>10. Control' /\ NoneTwice'
    BY <1>2, <1>6, <1>9, ControlAt DEF Inv, NoneTwice
  <1>11. TypeOK' /\ BookOK(book, tangled)'
    BY <1>2, <1>4, <1>5, RecordsSame DEF Inv, TypeOK
  <1> QED
    BY <1>8, <1>10, <1>11 DEF Inv

LEMMA MarksFacts ==
  ASSUME TypeOK, NEW t \in Threads, Marks(t)
  PROVE  /\ send' \in [Threads -> [at : SendSteps, what : Prompts, moved : BOOLEAN]]
         /\ send'[t].at = send[t].at /\ send'[t].what = send[t].what
         /\ send'[t].moved = (send[t].at = "sent")
         /\ \A u \in Threads \ {t} : send'[u] = send[u]
  <1>1. send \in [Threads -> [at : SendSteps, what : Prompts, moved : BOOLEAN]]
    BY DEF TypeOK
  <1>2. PICK b \in BOOLEAN : b = (send[t].at = "sent")
    OBVIOUS
  <1>3. send' = [send EXCEPT ![t].moved = b]
    BY <1>2 DEF Marks
  <1> QED
    BY <1>1, <1>2, <1>3

LEMMA LateTurnKeeps ==
  ASSUME Inv, NEW t \in Threads, LateTurn(t)
  PROVE  Inv'
  <1>1. PICK p \in floating[t] :
          /\ conv[t] /\ live[t] = NoPrompt /\ Begins(t, p) /\ Marks(t)
          /\ floating' = [floating EXCEPT ![t] = @ \ {p}]
          /\ UNCHANGED <<on, alone, revokes, stage, queue, paused, conv, kick>>
          /\ UNCHANGED <<answers, tangled>>
    BY DEF LateTurn, policy, history
  <1>2. p \in Prompts /\ p # NoPrompt /\ floating \in [Threads -> SUBSET Prompts]
    BY <1>1, PromptFacts DEF Inv, TypeOK, Control, Steady
  <1>3. /\ floating' \in [Threads -> SUBSET Prompts]
        /\ floating'[t] \subseteq floating[t]
        /\ \A u \in Threads \ {t} : floating'[u] = floating[u]
    BY <1>1, <1>2
  <1>4. /\ send' \in [Threads -> [at : SendSteps, what : Prompts, moved : BOOLEAN]]
        /\ send'[t].at = send[t].at /\ send'[t].what = send[t].what
        /\ send'[t].at = "sent" => send'[t].moved
        /\ send'[t].at \in {"taken", "checked"} => ~send'[t].moved
        /\ \A u \in Threads \ {t} : send'[u] = send[u]
    BY <1>1, MarksFacts DEF Inv
  <1>5. /\ BookOK(book, tangled)' /\ KnownOK' /\ AnswersOK' /\ PlacedOK'
        /\ OnePlace' /\ ShownOK' /\ Control' /\ NoneTwice'
    BY <1>1, <1>2, <1>3, <1>4, BeginsKeeps
  <1>6. /\ {arm', turn'} \subseteq [Threads -> Prompts]
        /\ live' \in [Threads -> Prompts] /\ base' \in [Threads -> {"ready", "working"}]
    BY <1>1, <1>2, BeginsFacts
  <1>7. TypeOK'
    BY <1>1, <1>3, <1>4, <1>5, <1>6 DEF Inv, TypeOK, BookOK
  <1> QED
    BY <1>5, <1>7 DEF Inv

LEMMA OwnTurnKeeps ==
  ASSUME Inv, NEW t \in Threads, OwnTurnBegins(t)
  PROVE  Inv'
  <1>1. /\ UNCHANGED <<on, alone, revokes, stage, queue, paused, conv, kick>>
        /\ UNCHANGED <<floating, answers, tangled>>
        /\ Begins(t, OwnTurn) /\ conv[t] /\ live[t] = NoPrompt /\ Marks(t)
    BY DEF OwnTurnBegins, policy, history
  <1>2. OwnTurn \in Prompts /\ OwnTurn # NoPrompt
    BY PromptFacts
  <1>3. /\ send' \in [Threads -> [at : SendSteps, what : Prompts, moved : BOOLEAN]]
        /\ send'[t].at = send[t].at /\ send'[t].what = send[t].what
        /\ send'[t].at = "sent" => send'[t].moved
        /\ send'[t].at \in {"taken", "checked"} => ~send'[t].moved
        /\ \A u \in Threads \ {t} : send'[u] = send[u]
    BY <1>1, MarksFacts DEF Inv
  <1>4. /\ BookOK(book, tangled)' /\ KnownOK' /\ AnswersOK' /\ PlacedOK' /\ OnePlace' /\ ShownOK'
        /\ Control' /\ NoneTwice'
    BY <1>1, <1>2, <1>3, BeginsKeeps
  <1>5. /\ {arm', turn'} \subseteq [Threads -> Prompts]
        /\ live' \in [Threads -> Prompts] /\ base' \in [Threads -> {"ready", "working"}]
    BY <1>1, <1>2, BeginsFacts
  <1>6. TypeOK'
    BY <1>1, <1>3, <1>4, <1>5 DEF Inv, TypeOK, BookOK
  <1> QED
    BY <1>4, <1>6 DEF Inv

LEMMA RestoredFacts ==
  ASSUME TypeOK, NEW t \in Threads, Restored(t)
  PROVE  /\ base' \in [Threads -> {"ready", "working"}]
         /\ \A u \in Threads \ {t} : base'[u] = base[u]
  <1>1. base \in [Threads -> {"ready", "working"}]
    BY DEF TypeOK
  <1>2. base' = base \/ base' = [base EXCEPT ![t] = "ready"]
    BY DEF Restored
  <1> QED
    BY <1>1, <1>2

\* A prompt that was sent is armed, or its conversation ended.
LEMMA SentFacts ==
  ASSUME Inv, NEW t \in Threads, send[t].at = "sent", NEW p, p = send[t].what
  PROVE  /\ p \in Prompts /\ IsPeer(p) /\ p # NoPrompt
         /\ Known(p.msg) /\ p.msg \in Msgs
         /\ send[t].moved => arm[t] = NoPrompt
         /\ ~send[t].moved =>
              /\ live[t] = NoPrompt
              /\ arm[t] # p => arm[t] = NoPrompt
              /\ p.msg \notin tangled =>
                   /\ arm[t] = p => At(t, "arm", p) /\ Fact(t, "arm", p)
                   /\ arm[t] # p => At(t, "left", p) /\ Fact(t, "left", p)
  <1>1. /\ p \in Prompts /\ IsPeer(p) /\ p # NoPrompt
        /\ Known(p.msg) /\ p.msg \in Msgs
        /\ send[t].moved => arm[t] = NoPrompt
        /\ ~send[t].moved => live[t] = NoPrompt /\ (arm[t] # p => arm[t] = NoPrompt)
    BY PromptTypes, PromptFacts DEF Inv, Control, Steady, KnownOK, Known
  <1>2. p.msg \notin tangled /\ arm[t] = p => At(t, "arm", p)
    BY <1>1 DEF At
  <1>3. p.msg \notin tangled /\ ~send[t].moved /\ arm[t] # p => At(t, "left", p)
    BY DEF At, IsLeft
  <1>4. "arm" \in Kinds /\ "left" \in Kinds
    BY DEF Kinds
  <1> QED
    BY <1>1, <1>2, <1>3, <1>4, PlaceFacts

\* A refused prompt whose arm a turn took: its message is tangled.
LEMMA TanglesKeeps ==
  ASSUME Inv, NEW t \in Threads, Refuses(t), send[t].moved
  PROVE  Inv'
  <1>1. PICK p : p = send[t].what
    OBVIOUS
  <1>2. /\ UNCHANGED <<on, alone, revokes, book, stage, queue, conv, kick, turn>>
        /\ UNCHANGED <<live, floating, answers>>
        /\ send[t].at = "sent" /\ Restored(t) /\ Disarmed(t)
        /\ tangled' = IF send[t].moved /\ IsPeer(p) THEN tangled \cup {p.msg}
                      ELSE tangled
        /\ Pauses(t) \/ UNCHANGED paused
    BY <1>1 DEF Refuses, policy, provVars
  <1>3. /\ p \in Prompts /\ IsPeer(p) /\ p # NoPrompt
        /\ Known(p.msg) /\ p.msg \in Msgs /\ arm[t] = NoPrompt
    BY <1>1, <1>2, SentFacts
  <1>4. /\ tangled' = tangled \cup {p.msg} /\ tangled \subseteq Msgs
        /\ UNCHANGED <<arm, base>>
    BY <1>1, <1>2, <1>3 DEF Restored, Disarmed, Inv, TypeOK
  <1>5. /\ send' \in [Threads -> [at : SendSteps, what : Prompts, moved : BOOLEAN]]
        /\ send'[t].at \in {"busy", "rejected"} /\ send'[t].what = p
        /\ \A u \in Threads \ {t} : send'[u] = send[u]
    <2>1. "busy" \in SendSteps /\ "rejected" \in SendSteps
      BY DEF SendSteps
    <2>2. Goto(t, "busy") \/ Goto(t, "rejected")
      BY DEF Refuses
    <2> QED
      BY <1>1, <2>1, <2>2, GotoFacts DEF Inv
  <1>6. Elsewhere(t)
    BY <1>2, <1>4, <1>5 DEF Elsewhere
  <1>7. SamePlaces({p.msg})
    <2> SUFFICES ASSUME NEW u \in Threads, NEW j \in Kinds, NEW x \in Prompts,
                        x.msg # p.msg
                 PROVE  At(u, j, x)' <=> At(u, j, x)
      BY DEF SamePlaces
    <2>1. x.msg \in tangled' <=> x.msg \in tangled
      BY <1>4
    <2>2. CASE u = t
      BY <1>1, <1>2, <1>4, <1>5, <2>1, <2>2 DEF At, InHand, IsLost, IsLeft
    <2>3. CASE u # t
      BY <1>2, <1>4, <1>5, <2>1, <2>3 DEF At, InHand, IsLost, IsLeft
    <2> QED
      BY <2>2, <2>3
  <1>8. SameRecords({p.msg})
    <2>1. book.id \in Int
      BY BookFields DEF Inv, BookOK
    <2>2. Known(p.msg)'
      BY <1>2, <1>3 DEF Known
    <2> QED
      BY <1>2, <1>4, <2>1, <2>2 DEF SameRecords
  <1>9. BookOK(book, tangled)'
    <2>1. BookOK(book, tangled')
      BY <1>4, BookMono DEF Inv
    <2> QED
      BY <1>2, <2>1 DEF BookOK, Entry, Cleared, Owed
  <1>10. Placed({p.msg})'
    <2>1. Absent(p.msg)' /\ Answers(p.msg)'
      BY <1>4 DEF Absent, At, Answers
    <2> QED
      BY <2>1 DEF Placed
  <1>11. Carries
    <2>1. Known(p.msg)'
      BY <1>2, <1>3 DEF Known
    <2> QED
      BY <1>4, <1>5, <2>1 DEF Carries
  <1>12. KnownOK' /\ AnswersOK' /\ PlacedOK' /\ OnePlace' /\ ShownOK'
    BY <1>3, <1>7, <1>8, <1>9, <1>10, <1>11, Moves
  <1>13. NoneTwice'
    <2>1. \A u \in Threads : NoTwice(queue[u], tangled')
      BY <1>4 DEF Inv, NoneTwice, NoTwice
    <2> QED
      BY <1>2, <2>1 DEF NoneTwice
  <1>14. Steady(t)'
    BY <1>2, <1>3, <1>4, <1>5 DEF Inv, Control, Steady
  <1>15. Control'
    BY <1>6, <1>14, ControlAt DEF Inv
  <1>16. TypeOK'
    <2>1. paused' \in [Threads -> BOOLEAN]
      BY <1>2, PausesType DEF Inv, TypeOK
    <2> QED
      BY <1>2, <1>3, <1>4, <1>5, <2>1 DEF Inv, TypeOK
  <1> QED
    BY <1>9, <1>12, <1>13, <1>15, <1>16 DEF Inv

LEMMA RefusesKeeps ==
  ASSUME Inv, NEW t \in Threads, Refuses(t), ~send[t].moved
  PROVE  Inv'
  <1>1. PICK p, k : p = send[t].what /\ k = IF arm[t] = p THEN "arm" ELSE "left"
    OBVIOUS
  <1>2. /\ UNCHANGED <<on, alone, revokes, book, stage, queue, conv, kick, turn>>
        /\ UNCHANGED <<live, floating, answers, tangled>>
        /\ send[t].at = "sent" /\ Restored(t) /\ Disarmed(t)
    BY DEF Refuses, policy, provVars
  <1>3. /\ p \in Prompts /\ IsPeer(p) /\ p # NoPrompt /\ live[t] = NoPrompt
        /\ Known(p.msg) /\ p.msg \in Msgs
        /\ arm[t] # p => arm[t] = NoPrompt
        /\ p.msg \notin tangled =>
             /\ arm[t] = p => At(t, "arm", p) /\ Fact(t, "arm", p)
             /\ arm[t] # p => At(t, "left", p) /\ Fact(t, "left", p)
    BY <1>1, <1>2, SentFacts
  <1>4. /\ p.msg \notin tangled => At(t, k, p) /\ Fact(t, k, p)
        /\ k \in Kinds /\ "lost" \in Kinds
    BY <1>1, <1>3 DEF Kinds
  <1>5. Goto(t, "rejected") /\ Pauses(t)
    BY <1>3 DEF Refuses
  <1>6. /\ send' \in [Threads -> [at : SendSteps, what : Prompts, moved : BOOLEAN]]
        /\ send'[t].at = "rejected" /\ send'[t].what = p
        /\ \A u \in Threads \ {t} : send'[u] = send[u]
    <2>1. "rejected" \in SendSteps
      BY DEF SendSteps
    <2> QED
      BY <1>1, <1>5, <2>1, GotoFacts DEF Inv
  <1>7. /\ arm' \in [Threads -> Prompts] /\ arm'[t] = NoPrompt
        /\ \A u \in Threads \ {t} : arm'[u] = arm[u]
    <2>1. arm \in [Threads -> Prompts] /\ NoPrompt \in Prompts
      BY PromptFacts DEF Inv, TypeOK
    <2>2. arm' = IF arm[t] = p THEN [arm EXCEPT ![t] = NoPrompt] ELSE arm
      BY <1>1, <1>2 DEF Disarmed
    <2> QED
      BY <1>3, <2>1, <2>2
  <1>8. /\ base' \in [Threads -> {"ready", "working"}]
        /\ \A u \in Threads \ {t} : base'[u] = base[u]
    BY <1>2, RestoredFacts DEF Inv
  <1>9. Elsewhere(t) /\ \A u \in Threads \ {t} : queue'[u] = queue[u]
    BY <1>2, <1>6, <1>7, <1>8 DEF Elsewhere
  <1>10. \A j \in Kinds, x \in Prompts :
           At(t, j, x)' <=> \/ j = "lost" /\ x = p /\ p.msg \notin tangled
                            \/ j \in {"queue", "turn"} /\ At(t, j, x)
    BY <1>2, <1>6, <1>7 DEF At, InHand, IsLost, IsLeft
  <1>11. \A j \in Kinds, x \in Prompts :
           x.msg # p.msg => (At(t, j, x)' <=> At(t, j, x))
    <2> SUFFICES ASSUME NEW j \in Kinds, NEW x \in Prompts, x.msg # p.msg
                 PROVE  At(t, j, x)' <=> At(t, j, x)
      OBVIOUS
    <2>1. At(t, j, x) => j \in {"queue", "turn"}
      BY <1>1, <1>2, <1>3 DEF At, InHand, IsLost, IsLeft
    <2> QED
      BY <1>10, <2>1
  <1>12. \A j \in Kinds, x \in Prompts :
           At(t, j, x)' /\ x.msg = p.msg => j = "lost" /\ x = p
    <2>1. \A j \in Kinds, x \in Prompts : At(t, j, x) /\ x.msg = p.msg => j = k
      <3> SUFFICES ASSUME NEW j \in Kinds, NEW x \in Prompts, At(t, j, x),
                          x.msg = p.msg
                   PROVE  j = k
        OBVIOUS
      <3>1. At(t, k, p)
        BY <1>4 DEF At
      <3> QED
        BY <1>3, <1>4, <3>1, SolePlace
    <2> QED
      BY <1>1, <1>10, <2>1
  <1>13. p.msg \notin tangled => At(t, "lost", p)'
    BY <1>3, <1>4, <1>10
  <1>14. (p.msg \notin tangled => Fact(t, "lost", p)') /\ Answers(p.msg)'
    <2>1. p.msg \notin tangled => Fact(t, "lost", p)'
      BY <1>1, <1>2, <1>4 DEF Fact, Fits, Known
    <2>2. Answers(p.msg)'
      BY <1>2, <1>3 DEF Inv, AnswersOK, Answers, Known
    <2> QED
      BY <2>1, <2>2
  <1>15. BookOK(book, tangled)' /\ SameRecords({p.msg})
    BY <1>2, RecordsSame
  <1>16. KnownOK' /\ AnswersOK' /\ PlacedOK' /\ OnePlace' /\ ShownOK'
    <2>1. Carries
      BY <1>2, <1>6, <1>9, CarriesAt
    <2> QED
      BY <1>2, <1>3, <1>4, <1>9, <1>11, <1>12, <1>13, <1>14, <1>15, <2>1, Advance
  <1>17. Steady(t)'
    <2>1. Steady(t) /\ live'[t] = NoPrompt /\ turn'[t] = turn[t]
          /\ floating'[t] = floating[t]
      BY <1>2, <1>3 DEF Inv, Control
    <2> QED
      BY <1>2, <1>3, <1>6, <1>7, <2>1 DEF Steady
  <1>18. Control' /\ NoneTwice'
    BY <1>2, <1>9, <1>17, ControlAt DEF Inv, NoneTwice
  <1>19. TypeOK'
    <2>1. paused' \in [Threads -> BOOLEAN]
      BY <1>5, PausesType DEF Inv
    <2> QED
      BY <1>2, <1>6, <1>7, <1>8, <2>1 DEF Inv, TypeOK
  <1> QED
    BY <1>15, <1>16, <1>18, <1>19 DEF Inv

LEMMA UncertainKeeps ==
  ASSUME Inv, NEW t \in Threads, Uncertain(t)
  PROVE  Inv'
  <1>1. PICK p : p = send[t].what
    OBVIOUS
  <1>2. /\ UNCHANGED <<on, alone, revokes, book, stage, queue, conv, kick, arm, turn>>
        /\ UNCHANGED <<live, answers, tangled>>
        /\ send[t].at = "sent" /\ Restored(t) /\ Goto(t, "took") /\ Pauses(t)
        /\ floating' = [floating EXCEPT ![t] = IF conv[t] THEN @ \cup {p} ELSE @]
    BY <1>1 DEF Uncertain, policy, history
  <1>3. /\ p \in Prompts /\ IsPeer(p) /\ p # NoPrompt
        /\ Known(p.msg) /\ p.msg \in Msgs
        /\ ~send[t].moved => live[t] = NoPrompt
        /\ ~send[t].moved /\ arm[t] # p /\ p.msg \notin tangled =>
             At(t, "left", p) /\ Fact(t, "left", p)
    BY <1>1, <1>2, SentFacts
  <1>4. /\ send' \in [Threads -> [at : SendSteps, what : Prompts, moved : BOOLEAN]]
        /\ send'[t].at = "took" /\ send'[t].what = p
        /\ \A u \in Threads \ {t} : send'[u] = send[u]
    <2>1. "took" \in SendSteps
      BY DEF SendSteps
    <2> QED
      BY <1>1, <1>2, <2>1, GotoFacts DEF Inv
  <1>5. /\ floating' \in [Threads -> SUBSET Prompts]
        /\ floating'[t] \subseteq floating[t] \cup {p}
        /\ \A u \in Threads \ {t} : floating'[u] = floating[u]
    <2>1. floating \in [Threads -> SUBSET Prompts]
      BY DEF Inv, TypeOK
    <2> QED
      BY <1>2, <1>3, <2>1
  <1>6. /\ base' \in [Threads -> {"ready", "working"}]
        /\ \A u \in Threads \ {t} : base'[u] = base[u]
    BY <1>2, RestoredFacts DEF Inv
  <1>7. Elsewhere(t) /\ \A u \in Threads \ {t} : queue'[u] = queue[u]
    BY <1>2, <1>4, <1>5, <1>6 DEF Elsewhere
  <1>8. \A j \in Kinds, x \in Prompts : At(t, j, x)' <=> j # "left" /\ At(t, j, x)
    BY <1>1, <1>2, <1>4 DEF At, InHand, IsLost, IsLeft
  <1>9. BookOK(book, tangled)' /\ \A M : SameRecords(M)
    BY <1>2, RecordsSame
  <1>10. KnownOK' /\ AnswersOK' /\ PlacedOK' /\ OnePlace' /\ ShownOK'
    <2>0. Carries
      BY <1>2, <1>4, <1>7, CarriesAt
    <2>1. CASE arm[t] = p \/ send[t].moved \/ p.msg \in tangled
      <3>1. \A j \in Kinds, x \in Prompts : At(t, j, x)' <=> At(t, j, x)
        BY <1>1, <1>8, <2>1 DEF At, IsLeft
      <3>2. SamePlaces({})
        BY <1>2, <1>7, <3>1, PlacesAt
      <3>3. Placed({})'
        BY DEF Placed
      <3> QED
        BY <1>9, <2>0, <3>2, <3>3, Moves
    <2>2. CASE ~(arm[t] = p \/ send[t].moved \/ p.msg \in tangled)
      <3>1. At(t, "left", p) /\ Fact(t, "left", p) /\ "left" \in Kinds
        BY <1>3, <2>2 DEF Kinds
      <3>2. \A j \in Kinds, x \in Prompts :
              x.msg # p.msg => (At(t, j, x)' <=> At(t, j, x))
        BY <1>1, <1>8 DEF At, IsLeft
      <3>3. \A j \in Kinds, x \in Prompts : At(t, j, x)' => x.msg # p.msg
        BY <1>3, <1>8, <3>1, SolePlace
      <3>4. p.msg \in ToSet(book'.list) =>
              book'.msg[p.msg].status \notin {"queued", "working"}
        BY <1>2, <3>1 DEF Fact, Fits, Ends, Final
      <3>5. Answers(p.msg)' /\ SameRecords({p.msg}) /\ BookOK(book, tangled)'
        BY <1>2, <1>3, <1>9 DEF Inv, AnswersOK, Answers, Known
      <3> QED
        BY <1>2, <1>3, <1>7, <2>0, <3>1, <3>2, <3>3, <3>4, <3>5, Leaves
    <2> QED
      BY <2>1, <2>2
  <1>11. Steady(t)'
    <2>1. /\ Steady(t) /\ live'[t] = live[t] /\ turn'[t] = turn[t]
          /\ arm'[t] = arm[t]
          /\ base'[t] = base[t] \/ live[t] = NoPrompt
          /\ \A x \in floating'[t] : x = p \/ x \in floating[t]
      BY <1>2, <1>3, <1>5 DEF Inv, Control, Restored
    <2> QED
      BY <1>2, <1>3, <1>4, <2>1 DEF Steady
  <1>12. Control' /\ NoneTwice'
    BY <1>2, <1>7, <1>11, ControlAt DEF Inv, NoneTwice
  <1>13. TypeOK'
    <2>1. paused' \in [Threads -> BOOLEAN]
      BY <1>2, PausesType DEF Inv
    <2> QED
      BY <1>2, <1>4, <1>5, <1>6, <2>1 DEF Inv, TypeOK
  <1> QED
    BY <1>9, <1>10, <1>12, <1>13 DEF Inv

LEMMA DrainEndsKeeps ==
  ASSUME Inv, NEW t \in Threads, DrainEnds(t)
  PROVE  Inv'
  <1>1. PICK p, at, q, s : /\ p = send[t].what /\ at = send[t].at
                           /\ q = <<p>> \o queue[t] /\ s = Failure(p)
    OBVIOUS
  <1>2. /\ UNCHANGED <<on, alone, revokes, stage, paused, base, conv, kick, arm, turn>>
        /\ UNCHANGED <<live, floating, answers, tangled>>
        /\ at \in {"took", "rejected", "busy"}
        /\ send' = [send EXCEPT ![t] = Idle]
        /\ book' = IF at = "rejected" /\ IsPeer(p) THEN Ended(book, p, s) ELSE book
        /\ queue' = IF at = "busy" THEN [queue EXCEPT ![t] = q] ELSE queue
    BY <1>1 DEF DrainEnds, policy, provVars, history
  <1>3. /\ send' \in [Threads -> [at : SendSteps, what : Prompts, moved : BOOLEAN]]
        /\ send'[t].at = "idle"
        /\ \A u \in Threads \ {t} : send'[u] = send[u]
    BY <1>2, IdleFacts DEF Inv
  <1>4. queue \in [Threads -> Seq(Prompts)] /\ NoTwice(queue[t], tangled) /\ p \in Prompts
        /\ {"queue", "hand", "lost"} \subseteq Kinds
    BY <1>1, PromptTypes DEF Inv, TypeOK, NoneTwice, Kinds
  <1>5. Elsewhere(t) /\ Carries
    <2>1. Elsewhere(t)
      BY <1>2, <1>3 DEF Elsewhere
    <2> QED
      BY <1>2, <1>3, <2>1, CarriesAt
  <1>6. Steady(t)'
    BY <1>2, <1>3 DEF Inv, Control, Steady
  <1>7. Control'
    BY <1>5, <1>6, ControlAt DEF Inv
  <1>8. CASE at = "took"
    <2>1. UNCHANGED <<book, queue>>
      BY <1>2, <1>8
    <2>2. \A j \in Kinds, x \in Prompts : At(t, j, x)' <=> At(t, j, x)
      BY <1>1, <1>2, <1>3, <1>8, <2>1 DEF At, InHand, IsLost, IsLeft
    <2>3. SamePlaces({}) /\ BookOK(book, tangled)' /\ SameRecords({})
      BY <1>2, <1>5, <2>1, <2>2, PlacesAt, RecordsSame
    <2>4. Placed({})'
      BY DEF Placed
    <2>5. KnownOK' /\ AnswersOK' /\ PlacedOK' /\ OnePlace' /\ ShownOK'
      BY <1>5, <2>3, <2>4, Moves
    <2>6. NoneTwice' /\ TypeOK'
      BY <1>2, <1>3, <2>1 DEF Inv, TypeOK, NoneTwice
    <2> QED
      BY <1>7, <2>3, <2>5, <2>6 DEF Inv
  <1>9. CASE at = "rejected"
    <2>1. p.msg \notin tangled => At(t, "lost", p)
      BY <1>1, <1>9 DEF At, IsLost
    <2>2. IsPeer(p) /\ UNCHANGED queue /\ s \in Ends
      BY <1>1, <1>2, <1>4, <1>9, <2>1, SomeFacts, FailureEnds
    <2>3. /\ BookOK(book, tangled)' /\ SameRecords({p.msg}) /\ Answers(p.msg)'
          /\ p.msg \notin tangled =>
               (p.msg \in ToSet(book'.list) => book'.msg[p.msg].status = s)
      <3>1. book' = Ended(book, p, s) /\ UNCHANGED <<answers, tangled>>
        BY <1>2, <1>9, <2>2
      <3> QED
        BY <1>4, <2>1, <2>2, <3>1, EndsAt
    <2>4. \A j \in Kinds, x \in Prompts : At(t, j, x)' <=> j # "lost" /\ At(t, j, x)
      BY <1>1, <1>2, <1>3, <1>9, <2>2 DEF At, InHand, IsLost, IsLeft
    <2>5. \A j \in Kinds, x \in Prompts :
            x.msg # p.msg => (At(t, j, x)' <=> At(t, j, x))
      BY <1>1, <2>4 DEF At, IsLost
    <2>6. \A j \in Kinds, x \in Prompts : At(t, j, x)' => x.msg # p.msg
      <3> SUFFICES ASSUME NEW j \in Kinds, NEW x \in Prompts, At(t, j, x)',
                          x.msg = p.msg
                   PROVE  FALSE
        OBVIOUS
      <3>1. At(t, "lost", p)
        BY <1>2, <2>1 DEF At
      <3> QED
        BY <1>4, <2>4, <3>1, SolePlace
    <2>7. p.msg \notin tangled /\ p.msg \in ToSet(book'.list) =>
            book'.msg[p.msg].status \notin {"queued", "working"}
      <3>1. s \notin {"queued", "working"}
        BY <2>2 DEF Ends, Final
      <3> QED
        BY <2>3, <3>1
    <2>8. KnownOK' /\ AnswersOK' /\ PlacedOK' /\ OnePlace' /\ ShownOK'
      BY <1>2, <1>4, <1>5, <2>1, <2>2, <2>3, <2>5, <2>6, <2>7, Leaves
    <2>9. NoneTwice' /\ TypeOK'
      BY <1>2, <1>3, <2>2, <2>3 DEF Inv, TypeOK, NoneTwice, BookOK
    <2> QED
      BY <1>7, <2>3, <2>8, <2>9 DEF Inv
  <1>10. CASE at = "busy"
    <2>1. /\ IsPeer(p) /\ Known(p.msg)
          /\ p.msg \notin tangled =>
               /\ At(t, "hand", p)
               /\ \A j \in Kinds, x \in Prompts :
                    At(t, j, x) /\ x.msg = p.msg => j = "hand"
      BY <1>1, <1>10, HandOnly
    <2>2. /\ UNCHANGED book /\ queue' = [queue EXCEPT ![t] = q]
          /\ p.msg \notin tangled => Fact(t, "hand", p)
      BY <1>2, <1>4, <1>10, <2>1, PlaceFacts
    <2>3. \A x : Has(queue[t], x) => x.msg # p.msg \/ p.msg \in tangled
      <3> SUFFICES ASSUME NEW x, Has(queue[t], x), x.msg = p.msg,
                          p.msg \notin tangled
                   PROVE  FALSE
        OBVIOUS
      <3>1. x \in Prompts /\ At(t, "queue", x)
        BY <1>4 DEF Has, At
      <3> QED
        BY <1>4, <2>1, <3>1
    <2>4. /\ q \in Seq(Prompts) /\ NoTwice(q, tangled)
          /\ \A x : Has(q, x) <=> Has(queue[t], x) \/ x = p
      <3>1. queue[t] \in Seq(Prompts)
        BY <1>4
      <3> QED
        BY <1>1, <1>4, <2>3, <3>1, FrontHas
    <2>5. /\ queue' \in [Threads -> Seq(Prompts)] /\ queue'[t] = q
          /\ \A u \in Threads \ {t} : queue'[u] = queue[u]
      BY <1>4, <2>2, <2>4
    <2>6. \A j \in Kinds, x \in Prompts :
            At(t, j, x)' <=> \/ j = "queue" /\ x = p /\ p.msg \notin tangled
                             \/ j # "hand" /\ At(t, j, x)
      BY <1>1, <1>2, <1>3, <1>10, <2>4, <2>5 DEF At, InHand, IsLost, IsLeft
    <2>7. \A j \in Kinds, x \in Prompts :
            x.msg # p.msg => (At(t, j, x)' <=> At(t, j, x))
      BY <1>1, <2>6 DEF At, InHand
    <2>8. \A j \in Kinds, x \in Prompts :
            At(t, j, x)' /\ x.msg = p.msg => j = "queue" /\ x = p
      BY <2>1, <2>6 DEF At
    <2>9. p.msg \notin tangled => At(t, "queue", p)'
      BY <1>4, <2>6
    <2>10. (p.msg \notin tangled => Fact(t, "queue", p)') /\ Answers(p.msg)'
      <3>1. p.msg \notin tangled => Fact(t, "queue", p)'
        BY <1>2, <2>2 DEF Fact, Fits, Known
      <3>2. Answers(p.msg)'
        BY <1>2, <2>1, <2>2 DEF Inv, AnswersOK, Answers, Known
      <3> QED
        BY <3>1, <3>2
    <2>11. BookOK(book, tangled)' /\ SameRecords({p.msg})
      BY <1>2, <2>2, RecordsSame
    <2>12. KnownOK' /\ AnswersOK' /\ PlacedOK' /\ OnePlace' /\ ShownOK'
      BY <1>2, <1>4, <1>5, <2>1, <2>5, <2>7, <2>8, <2>9, <2>10, <2>11, Advance
    <2>13. NoneTwice' /\ TypeOK'
      BY <1>2, <1>3, <2>2, <2>4, <2>5 DEF Inv, TypeOK, NoneTwice
    <2> QED
      BY <1>7, <2>11, <2>12, <2>13 DEF Inv
  <1> QED
    BY <1>2, <1>8, <1>9, <1>10

\* What is true of a prompt stays true, when its message is not one of M.
LEMMA FactKept ==
  ASSUME Inv, BookOK(book, tangled)', NEW M, SameRecords(M), NEW t \in Threads,
         NEW k, NEW p \in Prompts, Fact(t, k, p), p.msg \notin M
  PROVE  Fact(t, k, p)' /\ Answers(p.msg)'
  <1>1. p.msg \in Msgs \ M
    BY DEF Fact, Known
  <1>2. /\ answers'[p.msg] = answers[p.msg]
        /\ book'.msg[p.msg].from = book.msg[p.msg].from
        /\ Known(p.msg)' /\ (p.msg \in tangled' <=> p.msg \in tangled)
    BY <1>1 DEF SameRecords, Fact, Known
  <1>3. p.pair <= book'.id
    <2>1. book.id \in Int /\ book'.id \in Int /\ p.pair \in Int
      <3>1. book \in Book /\ book' \in Book
        BY DEF Inv, BookOK
      <3>2. book.id \in 0..MaxPairs /\ book'.id \in 0..MaxPairs
        BY <3>1, BookFields
      <3> QED
        BY <3>2, Bounds DEF Prompts
    <2> QED
      BY <2>1 DEF SameRecords, Fact
  <1>4. p.msg \in ToSet(book'.list) =>
          /\ p.msg \in ToSet(book.list) /\ book'.id = book.id
          /\ book'.msg[p.msg].status = book.msg[p.msg].status
    BY <1>1 DEF SameRecords
  <1>5. p.msg \in ToSet(book'.list) => Fits(k, p)'
    BY <1>4 DEF Fact, Fits
  <1>6. Answers(p.msg)'
    BY <1>1, <1>2 DEF Inv, AnswersOK, Answers, Known
  <1> QED
    BY <1>2, <1>3, <1>5, <1>6 DEF Fact

LEMMA CommitsKeeps ==
  ASSUME Inv, NEW t \in Threads, Commits(t)
  PROVE  Inv'
  <1>1. PICK p, a, s : p = send[t].what /\ a = arm[t] /\ s = Failure(a)
    OBVIOUS
  <1>2. send[t].at = "checked" /\ ~Busy(t) /\ conv[t]
    BY DEF Commits
  <1>3. CASE Revoked(p)
    BY <1>1, <1>2, <1>3, DropsKeeps DEF Commits
  <1>4. CASE ~Revoked(p)
    <2>1. /\ p \in Prompts /\ "hand" \in Kinds /\ IsPeer(p) /\ Known(p.msg)
          /\ p.msg \notin tangled =>
               /\ At(t, "hand", p)
               /\ \A j \in Kinds, x \in Prompts :
                    At(t, j, x) /\ x.msg = p.msg => j = "hand"
      BY <1>1, <1>2, HandOnly
    <2>2. /\ UNCHANGED <<on, alone, revokes, stage, queue, paused, conv, kick, turn>>
          /\ UNCHANGED <<live, floating, answers, tangled>>
          /\ book' = IF IsPeer(a) THEN Ended(book, a, s) ELSE book
          /\ arm' = [arm EXCEPT ![t] = p] /\ base' = [base EXCEPT ![t] = "working"]
          /\ Goto(t, "sent")
      BY <1>1, <1>4, <2>1 DEF Commits, policy, provVars, history
    <2>3. /\ send' \in [Threads -> [at : SendSteps, what : Prompts, moved : BOOLEAN]]
          /\ send'[t].at = "sent" /\ send'[t].what = p /\ ~send'[t].moved
          /\ \A u \in Threads \ {t} : send'[u] = send[u]
      <3>1. "sent" \in SendSteps
        BY DEF SendSteps
      <3> QED
        BY <1>1, <1>2, <2>2, <3>1, GotoFacts DEF Inv, Control, Steady
    <2>4. /\ arm' \in [Threads -> Prompts] /\ arm'[t] = p
          /\ base' \in [Threads -> {"ready", "working"}] /\ base'[t] = "working"
          /\ \A u \in Threads \ {t} : arm'[u] = arm[u] /\ base'[u] = base[u]
      <3>1. arm \in [Threads -> Prompts] /\ base \in [Threads -> {"ready", "working"}]
        BY DEF Inv, TypeOK
      <3> QED
        BY <2>1, <2>2, <3>1
    <2>5. Elsewhere(t) /\ \A u \in Threads \ {t} : queue'[u] = queue[u]
      BY <2>2, <2>3, <2>4 DEF Elsewhere
    <2>6. a \in Prompts /\ "arm" \in Kinds /\ p # NoPrompt
      BY <1>1, <2>1, PromptTypes, PromptFacts DEF Inv, Kinds
    <2>7. a # NoPrompt => /\ a.msg \notin tangled => At(t, "arm", a)
                          /\ IsPeer(a) /\ a.msg \in Msgs
      <3> SUFFICES ASSUME a # NoPrompt
                   PROVE  /\ a.msg \notin tangled => At(t, "arm", a)
                          /\ IsPeer(a) /\ a.msg \in Msgs
        OBVIOUS
      <3>1. a.msg \notin tangled => At(t, "arm", a)
        BY <1>1 DEF At
      <3> QED
        BY <2>6, <3>1, SomeFacts
    <2>8. a = NoPrompt => ~IsPeer(a)
      BY PromptFacts
    <2>9. s \in Ends
      BY <1>1, FailureEnds
    <2> DEFINE A == IF a = NoPrompt THEN {} ELSE {a.msg}
               M == A \cup {p.msg}
    <2>10. /\ BookOK(book, tangled)' /\ SameRecords(A)
           /\ a # NoPrompt =>
                /\ Answers(a.msg)'
                /\ a.msg \notin tangled =>
                     (a.msg \in ToSet(book'.list) => book'.msg[a.msg].status = s)
      <3>1. CASE a = NoPrompt
        BY <2>2, <2>8, <3>1, RecordsSame
      <3>2. CASE a # NoPrompt
        <4>1. book' = Ended(book, a, s) /\ UNCHANGED <<answers, tangled>>
          BY <2>2, <2>7, <3>2
        <4>2. /\ BookOK(book, tangled)' /\ SameRecords({a.msg}) /\ Answers(a.msg)'
              /\ a.msg \notin tangled =>
                   (a.msg \in ToSet(book'.list) => book'.msg[a.msg].status = s)
          BY <2>6, <2>7, <2>9, <3>2, <4>1, EndsAt
        <4> QED
          BY <3>2, <4>2
      <3> QED
        BY <3>1, <3>2
    <2>11. a # NoPrompt => a.msg # p.msg \/ p.msg \in tangled
      BY <2>1, <2>6, <2>7
    <2>12. p.msg \in Msgs /\ (p.msg \notin tangled => Fact(t, "hand", p))
      BY <2>1, PlaceFacts DEF Known
    <2>13. p.msg \notin A \/ p.msg \in tangled
      BY <2>11
    <2> HIDE DEF A
    <2>14. p.msg \notin tangled => Fact(t, "hand", p)' /\ Answers(p.msg)'
      BY <2>1, <2>10, <2>12, <2>13, FactKept
    <2>15. p.msg \notin tangled => Fact(t, "arm", p)'
      BY <2>14 DEF Fact, Fits
    <2>16. Known(p.msg)' /\ SameRecords(M)
      <3>1. Known(p.msg)'
        BY <2>1, <2>10, <2>12 DEF SameRecords, Known
      <3> QED
        BY <2>10, <3>1 DEF SameRecords
    <2>17. \A j \in Kinds, x \in Prompts :
             At(t, j, x)' <=> \/ j = "arm" /\ x = p /\ p.msg \notin tangled
                              \/ j \in {"queue", "turn"} /\ At(t, j, x)
      BY <2>2, <2>3, <2>4, <2>6 DEF At, InHand, IsLost, IsLeft
    <2>18. \A j \in Kinds, x \in Prompts :
             At(t, j, x) => \/ j = "hand" /\ x = p
                            \/ j = "arm" /\ x = a /\ a # NoPrompt
                            \/ j \in {"queue", "turn"}
      BY <1>1, <1>2 DEF At, InHand, IsLost, IsLeft
    <2>19. \A j \in Kinds, x \in Prompts :
             x.msg \notin M => (At(t, j, x)' <=> At(t, j, x))
      BY <2>17, <2>18 DEF A
    <2>20. SamePlaces(M)
      BY <2>2, <2>5, <2>19, PlacesAt
    <2>21. ASSUME NEW u \in Threads, NEW j \in Kinds, NEW x \in Prompts, At(u, j, x)'
           PROVE  /\ x.msg = p.msg => u = t /\ j = "arm" /\ x = p
                  /\ a # NoPrompt => x.msg # a.msg
      <3>1. CASE u = t
        <4>1. CASE j = "arm" /\ x = p /\ p.msg \notin tangled
          BY <2>11, <3>1, <4>1
        <4>2. CASE j \in {"queue", "turn"} /\ At(t, j, x)
          <5>1. x.msg # p.msg
            BY <2>1, <4>2 DEF At
          <5>2. a # NoPrompt => x.msg # a.msg
            <6> SUFFICES ASSUME a # NoPrompt, x.msg = a.msg
                         PROVE  FALSE
              OBVIOUS
            <6>1. At(t, "arm", a)
              BY <2>7, <4>2 DEF At
            <6> QED
              BY <2>6, <4>2, <6>1, SolePlace
          <5> QED
            BY <5>1, <5>2
        <4> QED
          BY <2>17, <2>21, <3>1, <4>1, <4>2
      <3>2. CASE u # t
        <4>1. At(u, j, x) /\ x.msg \notin tangled
          <5>1. At(u, j, x)
            BY <2>2, <2>5, <2>21, <3>2, PlacesElsewhere
          <5> QED
            BY <5>1 DEF At
        <4>2. x.msg # p.msg
          BY <2>1, <3>2, <4>1, SolePlace
        <4>3. a # NoPrompt => x.msg # a.msg
          BY <2>6, <2>7, <3>2, <4>1, SolePlace
        <4> QED
          BY <4>2, <4>3
      <3> QED
        BY <3>1, <3>2
    <2>22. Placed({p.msg})'
      <3>1. CASE p.msg \in tangled
        <4>1. Absent(p.msg)' /\ Answers(p.msg)'
          BY <2>2, <3>1 DEF Absent, At, Answers
        <4> QED
          BY <4>1 DEF Placed
      <3>2. CASE p.msg \notin tangled
        <4>1. At(t, "arm", p)'
          BY <2>1, <2>6, <2>17, <3>2
        <4>2. Alone(p.msg, t, "arm", p)'
          BY <2>15, <2>21, <3>2, <4>1 DEF Alone
        <4> QED
          BY <2>1, <2>6, <2>14, <3>2, <4>2 DEF Placed
      <3> QED
        BY <3>1, <3>2
    <2>23. a # NoPrompt => Placed({a.msg})'
      <3> SUFFICES ASSUME a # NoPrompt
                   PROVE  Placed({a.msg})'
        OBVIOUS
      <3>1. /\ a.msg \in Msgs /\ Answers(a.msg)'
            /\ a.msg \in tangled' \/
                 (a.msg \in ToSet(book'.list) => book'.msg[a.msg].status = s)
            /\ \A u \in Threads, j \in Kinds, x \in Prompts :
                 At(u, j, x)' => x.msg # a.msg
        BY <2>2, <2>7, <2>10, <2>21
      <3> QED
        BY <2>9, <3>1, Vanishes
    <2>24. Placed(M)'
      BY <2>22, <2>23 DEF Placed, A
    <2>25. M \in SUBSET Msgs
      BY <2>7, <2>12 DEF A
    <2> HIDE DEF M
    <2>26. KnownOK' /\ AnswersOK' /\ PlacedOK' /\ OnePlace' /\ ShownOK'
      <3>1. Carries
        BY <2>2, <2>3, <2>5, <2>16, CarriesAt
      <3> QED
        BY <2>10, <2>16, <2>20, <2>24, <2>25, <3>1, Moves
    <2>27. Steady(t)'
      <3>1. Steady(t) /\ live[t] = NoPrompt /\ turn[t] = NoPrompt
        BY <1>2 DEF Inv, Control, Steady, Busy
      <3>2. live'[t] = NoPrompt /\ turn'[t] = NoPrompt /\ floating'[t] = floating[t]
        BY <2>2, <3>1
      <3> QED
        BY <2>1, <2>3, <2>4, <3>1, <3>2 DEF Steady
    <2>28. Control' /\ NoneTwice'
      BY <2>2, <2>5, <2>27, ControlAt DEF Inv, NoneTwice
    <2>29. TypeOK'
      BY <2>2, <2>3, <2>4, <2>10 DEF Inv, TypeOK, BookOK
    <2> QED
      BY <2>10, <2>26, <2>28, <2>29 DEF Inv
  <1> QED
    BY <1>3, <1>4

-----------------------------------------------------------------------------
(* Turns and conversations that end.                                       *)

\* A Thread has an armed prompt or one that runs, not both.
LEMMA HeldBy ==
  ASSUME Inv, NEW t \in Threads, NEW p,
         p = IF IsPeer(turn[t]) THEN turn[t] ELSE arm[t]
  PROVE  /\ p \in Prompts
         /\ p = NoPrompt => arm[t] = NoPrompt /\ turn[t] = NoPrompt
         /\ p # NoPrompt =>
              /\ IsPeer(p) /\ Known(p.msg) /\ p.msg \in Msgs
              /\ \/ /\ turn[t] = p /\ arm[t] = NoPrompt
                    /\ p.msg \notin tangled => At(t, "turn", p)
                 \/ /\ arm[t] = p /\ turn[t] = NoPrompt
                    /\ p.msg \notin tangled => At(t, "arm", p)
  <1>1. arm[t] \in Prompts /\ turn[t] \in Prompts
    BY PromptTypes DEF Inv
  <1>2. arm[t] = NoPrompt \/ turn[t] = NoPrompt
    BY DEF Inv, Control, Steady
  <1>3. "arm" \in Kinds /\ "turn" \in Kinds
    BY DEF Kinds
  <1>4. ASSUME NEW x \in Prompts, NEW k \in {"arm", "turn"}, x # NoPrompt,
               x = IF k = "arm" THEN arm[t] ELSE turn[t]
        PROVE  /\ IsPeer(x) /\ Known(x.msg) /\ x.msg \in Msgs
               /\ x.msg \notin tangled => At(t, k, x)
    <2>1. x.msg \notin tangled => At(t, k, x)
      BY <1>4 DEF At
    <2> QED
      BY <1>3, <2>1, SomeFacts
  <1> QED
    BY <1>1, <1>2, <1>4, PromptFacts

\* What the end of a conversation does to the pair.
LEMMA GoneOK ==
  ASSUME Inv, NEW t \in Threads, NEW p,
         p = IF IsPeer(turn[t]) THEN turn[t] ELSE arm[t], NEW g, g = Gone(book, t)
  PROVE  /\ BookOK(g, tangled) /\ g.list = book.list /\ g.id = book.id
         /\ g.state = book.state
         /\ \A m \in Msgs :
              /\ g.msg[m].from = book.msg[m].from
              /\ g.msg[m].status = IF Listed(book, p) /\ ~p.reply /\ m = p.msg
                                   THEN "interrupted" ELSE book.msg[m].status
  <1>1. p \in Prompts /\ (p = NoPrompt => p.reply)
    BY HeldBy DEF NoPrompt, Prompt
  <1>2. p # NoPrompt => /\ IsPeer(p)
                        /\ Listed(book, p) => book.msg[p.msg].status # "held"
    BY HeldBy DEF Known
  <1>3. "interrupted" \in Ends /\ BookOK(book, tangled) /\ tangled \subseteq Msgs
    BY DEF Ends, Final, Inv, TypeOK
  <1>4. CASE p = NoPrompt \/ p.reply
    <2>1. g = book
      BY <1>1, <1>4 DEF Gone
    <2> QED
      BY <1>1, <1>3, <1>4, <2>1
  <1>5. CASE ~(p = NoPrompt \/ p.reply)
    <2>1. g = Ended(book, p, "interrupted")
      BY <1>2, <1>5 DEF Gone
    <2>2. Listed(book, p) => book.msg[p.msg].status # "held"
      BY <1>2, <1>5
    <2> QED
      BY <1>1, <1>3, <1>5, <2>1, <2>2, EndedOK
  <1> QED
    BY <1>4, <1>5

LEMMA DisconnectedFacts ==
  ASSUME TypeOK, NEW t \in Threads, Disconnected(t)
  PROVE  /\ arm'[t] = NoPrompt /\ turn'[t] = NoPrompt /\ live'[t] = NoPrompt
         /\ conv'[t] = FALSE /\ floating'[t] = {}
         /\ conv' \in [Threads -> BOOLEAN]
         /\ {arm', turn'} \subseteq [Threads -> Prompts]
         /\ live' \in [Threads -> Prompts]
         /\ floating' \in [Threads -> SUBSET Prompts]
         /\ \A u \in Threads \ {t} :
              /\ arm'[u] = arm[u] /\ turn'[u] = turn[u] /\ live'[u] = live[u]
              /\ conv'[u] = conv[u] /\ floating'[u] = floating[u]
  <1>1. /\ conv \in [Threads -> BOOLEAN] /\ {arm, turn} \subseteq [Threads -> Prompts]
        /\ live \in [Threads -> Prompts]
        /\ floating \in [Threads -> SUBSET Prompts]
    BY DEF TypeOK
  <1>2. NoPrompt \in Prompts /\ {} \in SUBSET Prompts
    BY PromptFacts
  <1> QED
    BY <1>1, <1>2 DEF Disconnected

LEMMA SettleKeeps ==
  ASSUME Inv, NEW t \in Threads, Settle(t)
  PROVE  Inv'
  <1>1. PICK p, g : /\ p = IF IsPeer(turn[t]) THEN turn[t] ELSE arm[t]
                    /\ g = IF conv[t] THEN Gone(book, t) ELSE book
    OBVIOUS
  <1>2. /\ UNCHANGED <<on, alone, queue, paused, base, kick, send, answers, tangled>>
        /\ stage' = [stage EXCEPT ![t] = "settled"]
        /\ revokes < MaxRevokes /\ revokes' = revokes + 1
        /\ queue[t] = <<>> /\ send[t].at = "idle"
        /\ book' = IF g.state = "denied" THEN g ELSE Dropped(g)
        /\ IF conv[t] THEN Disconnected(t)
           ELSE UNCHANGED <<conv, arm, turn, live, floating>>
    BY <1>1 DEF Settle, Revokes, provVars, history
  <1>3. revokes' \in 0..MaxRevokes
    BY <1>2, Bounds DEF Inv, TypeOK
  <1>4. stage' \in [Threads -> {"active", "settled"}]
    <2>1. stage \in [Threads -> {"active", "settled"}]
      BY DEF Inv, TypeOK
    <2> QED
      BY <1>2, <2>1
  <1>5. BookOK(book, tangled) /\ book.id \in Int /\ tangled \subseteq Msgs
    BY BookFields DEF Inv, BookOK, TypeOK
  <1>6. CASE ~conv[t]
    <2>1. UNCHANGED <<conv, arm, turn, live, floating>>
      BY <1>2, <1>6
    <2>2. BookOK(book, tangled)' /\ SameRecords({})
      <3>1. g = book
        BY <1>1, <1>6
      <3>2. CASE book.state = "denied"
        BY <1>2, <3>1, <3>2, RecordsSame
      <3>3. CASE book.state # "denied"
        BY <1>2, <3>1, <3>3, DroppedRecords
      <3> QED
        BY <3>2, <3>3
    <2>3. Control'
      BY <1>2, <2>1, ControlKept DEF Inv
    <2>4. TypeOK'
      BY <1>2, <1>3, <1>4, <2>1, <2>2 DEF Inv, TypeOK, BookOK
    <2> QED
      BY <1>2, <2>1, <2>2, <2>3, <2>4, StillKeeps
  <1>7. CASE conv[t]
    <2>1. /\ arm'[t] = NoPrompt /\ turn'[t] = NoPrompt /\ live'[t] = NoPrompt
          /\ conv'[t] = FALSE /\ floating'[t] = {}
          /\ conv' \in [Threads -> BOOLEAN]
          /\ {arm', turn'} \subseteq [Threads -> Prompts]
          /\ live' \in [Threads -> Prompts]
          /\ floating' \in [Threads -> SUBSET Prompts]
          /\ \A u \in Threads \ {t} :
               /\ arm'[u] = arm[u] /\ turn'[u] = turn[u] /\ live'[u] = live[u]
               /\ conv'[u] = conv[u] /\ floating'[u] = floating[u]
      BY <1>2, <1>7, DisconnectedFacts DEF Inv
    <2>2. /\ BookOK(g, tangled) /\ g.list = book.list /\ g.id = book.id
          /\ g.state = book.state
          /\ \A m \in Msgs :
               /\ g.msg[m].from = book.msg[m].from
               /\ g.msg[m].status = IF Listed(book, p) /\ ~p.reply /\ m = p.msg
                                    THEN "interrupted" ELSE book.msg[m].status
      BY <1>1, <1>7, GoneOK
    <2>3. /\ BookOK(book', tangled) /\ book'.id = book.id
          /\ \A m \in Msgs :
               /\ book'.msg[m].from = book.msg[m].from
               /\ book'.msg[m].status # g.msg[m].status =>
                    book'.msg[m].status = "gone" /\ m \notin ToSet(book'.list)
          /\ ToSet(book'.list) \subseteq ToSet(book.list)
      <3>1. CASE g.state = "denied"
        BY <1>2, <2>2, <3>1
      <3>2. CASE g.state # "denied"
        <4>1. /\ BookOK(book', tangled) /\ book'.list = <<>> /\ book'.id = g.id
              /\ \A m \in Msgs :
                   /\ book'.msg[m].from = g.msg[m].from
                   /\ book'.msg[m].status = IF g.msg[m].status = "none" THEN "none"
                                            ELSE "gone"
          BY <1>2, <1>5, <2>2, <3>2, DroppedOK
        <4>2. ToSet(book'.list) = {}
          BY <4>1 DEF ToSet
        <4> QED
          BY <2>2, <4>1, <4>2
      <3> QED
        BY <3>1, <3>2
    <2>4. Elsewhere(t) /\ \A u \in Threads \ {t} : queue'[u] = queue[u]
      BY <1>2, <2>1 DEF Elsewhere
    <2>5. \A j \in Kinds, x \in Prompts : ~At(t, j, x)'
      BY <1>2, <2>1 DEF At, InHand, IsLost, IsLeft, Has
    <2>6. /\ p \in Prompts
          /\ p = NoPrompt => arm[t] = NoPrompt /\ turn[t] = NoPrompt
          /\ p # NoPrompt =>
               /\ IsPeer(p) /\ Known(p.msg) /\ p.msg \in Msgs
               /\ \/ /\ turn[t] = p /\ arm[t] = NoPrompt
                     /\ p.msg \notin tangled => At(t, "turn", p)
                  \/ /\ arm[t] = p /\ turn[t] = NoPrompt
                     /\ p.msg \notin tangled => At(t, "arm", p)
      BY <1>1, HeldBy
    <2> Carries
      BY <1>2, <2>4, CarriesAt
    <2>7. KnownOK' /\ AnswersOK' /\ PlacedOK' /\ OnePlace' /\ ShownOK'
      <3>1. CASE p = NoPrompt
        <4>1. \A j \in Kinds, x \in Prompts : At(t, j, x)' <=> At(t, j, x)
          BY <1>2, <2>5, <2>6, <3>1 DEF At, InHand, IsLost, IsLeft, Has
        <4>2. SamePlaces({})
          BY <1>2, <2>4, <4>1, PlacesAt
        <4>3. SameRecords({}) /\ BookOK(book, tangled)'
          <5>1. \A m \in Msgs : g.msg[m].status = book.msg[m].status
            BY <2>2, <3>1 DEF NoPrompt, Prompt
          <5> QED
            BY <1>2, <1>5, <2>3, <5>1 DEF SameRecords
        <4>4. Placed({})'
          BY DEF Placed
        <4> QED
          BY <4>2, <4>3, <4>4, Moves
      <3>2. CASE p # NoPrompt
        <4>1. PICK k \in {"arm", "turn"} : p.msg \notin tangled => At(t, k, p)
          BY <2>6, <3>2
        <4>2. k \in Kinds
          BY DEF Kinds
        <4>3. /\ p.msg \in Msgs /\ Known(p.msg)
              /\ p.msg \notin tangled =>
                   /\ p.msg \in ToSet(book.list) <=> Listed(book, p)
                   /\ Listed(book, p) => Fits(k, p)
          BY <2>6, <3>2, <4>1, <4>2, PlaceFacts
        <4>4. \A j \in Kinds, x \in Prompts : At(t, j, x) => x = p
          BY <1>2, <2>6, <3>2 DEF At, InHand, IsLost, IsLeft, Has
        <4>5. SameRecords({p.msg}) /\ BookOK(book, tangled)'
          <5>1. \A m \in Msgs \ {p.msg} : g.msg[m].status = book.msg[m].status
            BY <2>2
          <5>2. Known(p.msg)'
            BY <2>2, <2>3, <4>3 DEF Known
          <5> QED
            BY <1>2, <1>5, <2>3, <5>1, <5>2 DEF SameRecords
        <4>6. p.msg \notin tangled /\ p.msg \in ToSet(book'.list) =>
                book'.msg[p.msg].status \notin {"queued", "working"}
          <5> SUFFICES ASSUME p.msg \notin tangled, p.msg \in ToSet(book'.list)
                       PROVE  book'.msg[p.msg].status \notin {"queued", "working"}
            OBVIOUS
          <5>1. Fits(k, p) /\ Listed(book, p)
            BY <2>3, <4>3
          <5>2. book'.msg[p.msg].status = g.msg[p.msg].status
            BY <2>3, <4>3
          <5>3. p.reply => book.msg[p.msg].status \in {"replying", "replied"}
            BY <5>1 DEF Fits
          <5> QED
            BY <2>2, <4>3, <5>1, <5>2, <5>3
        <4>7. Answers(p.msg)'
          <5>1. book'.msg[p.msg].status \notin {"none", "held"}
            BY <2>2, <2>3, <4>3 DEF Known
          <5> QED
            BY <1>2, <4>3, <5>1 DEF Inv, AnswersOK, Answers, Known
        <4> QED
          BY <1>2, <2>4, <2>5, <2>6, <4>1, <4>2, <4>4, <4>5, <4>6, <4>7, Leaves
      <3> QED
        BY <3>1, <3>2
    <2>8. Steady(t)'
      BY <1>2, <2>1 DEF Inv, Control, Steady
    <2>9. Control' /\ NoneTwice'
      BY <1>2, <2>4, <2>8, ControlAt DEF Inv, NoneTwice
    <2>10. TypeOK'
      <3>1. book' \in Book
        BY <2>3 DEF BookOK
      <3>2. UNCHANGED <<on, alone, queue, paused, base, kick, send, answers, tangled>>
        BY <1>2
      <3> QED
        BY <1>3, <1>4, <2>1, <3>1, <3>2 DEF Inv, TypeOK
    <2> QED
      BY <1>2, <2>3, <2>7, <2>9, <2>10 DEF Inv
  <1> QED
    BY <1>6, <1>7

LEMMA ExitsKeeps ==
  ASSUME Inv, NEW t \in Threads, Exits(t)
  PROVE  Inv'
  <1>1. PICK p, s : /\ p = IF IsPeer(turn[t]) THEN turn[t] ELSE arm[t]
                    /\ s = send[t].what
    OBVIOUS
  <1>2. /\ UNCHANGED <<on, alone, revokes, stage, queue, kick, send, answers, tangled>>
        /\ base' = [base EXCEPT ![t] = "ready"]
        /\ Disconnected(t) /\ Pauses(t) /\ book' = Gone(book, t)
    BY DEF Exits, policy, history
  <1>3. /\ arm'[t] = NoPrompt /\ turn'[t] = NoPrompt /\ live'[t] = NoPrompt
        /\ conv'[t] = FALSE /\ floating'[t] = {}
        /\ conv' \in [Threads -> BOOLEAN]
        /\ {arm', turn'} \subseteq [Threads -> Prompts]
        /\ live' \in [Threads -> Prompts]
        /\ floating' \in [Threads -> SUBSET Prompts]
        /\ \A u \in Threads \ {t} :
             /\ arm'[u] = arm[u] /\ turn'[u] = turn[u] /\ live'[u] = live[u]
             /\ conv'[u] = conv[u] /\ floating'[u] = floating[u]
    BY <1>2, DisconnectedFacts DEF Inv
  <1>4. /\ base' \in [Threads -> {"ready", "working"}]
        /\ \A u \in Threads \ {t} : base'[u] = base[u]
    <2>1. base \in [Threads -> {"ready", "working"}]
      BY DEF Inv, TypeOK
    <2> QED
      BY <1>2, <2>1
  <1>5. /\ BookOK(book', tangled) /\ book'.list = book.list /\ book'.id = book.id
        /\ \A m \in Msgs :
             /\ book'.msg[m].from = book.msg[m].from
             /\ book'.msg[m].status = IF Listed(book, p) /\ ~p.reply /\ m = p.msg
                                      THEN "interrupted" ELSE book.msg[m].status
    BY <1>1, <1>2, GoneOK
  <1>6. Elsewhere(t) /\ \A u \in Threads \ {t} : queue'[u] = queue[u]
    BY <1>2, <1>3, <1>4 DEF Elsewhere
  <1>7. Steady(t) /\ Carries
    BY <1>2, CarriesKept DEF Inv, Control
  <1>8. /\ p \in Prompts
        /\ p = NoPrompt => arm[t] = NoPrompt /\ turn[t] = NoPrompt
        /\ p # NoPrompt =>
             /\ IsPeer(p) /\ Known(p.msg) /\ p.msg \in Msgs
             /\ \/ /\ turn[t] = p /\ arm[t] = NoPrompt
                   /\ p.msg \notin tangled => At(t, "turn", p)
                \/ /\ arm[t] = p /\ turn[t] = NoPrompt
                   /\ p.msg \notin tangled => At(t, "arm", p)
    BY <1>1, HeldBy
  <1> DEFINE waits == send[t].at = "sent" /\ ~send[t].moved
  <1>9. /\ send[t].at = "sent" => IsPeer(s) /\ s # NoPrompt
        /\ waits => turn[t] = NoPrompt /\ (p # NoPrompt => p = s)
    BY <1>1, <1>7, <1>8, PromptFacts DEF Steady
  <1>10. \A j \in Kinds, x \in Prompts :
           At(t, j, x)' <=> \/ j \notin {"arm", "turn", "left"} /\ At(t, j, x)
                            \/ j = "left" /\ waits /\ x = s /\ s.msg \notin tangled
    BY <1>1, <1>2, <1>3, <1>9 DEF At, InHand, IsLost, IsLeft
  <1>11. BookOK(book, tangled)' /\ SameRecords({p.msg})
    <2>1. Known(p.msg) => Known(p.msg)'
      BY <1>5 DEF Known
    <2> QED
      BY <1>2, <1>5, <2>1, RecordsKept DEF history
  <1>12. KnownOK' /\ AnswersOK' /\ PlacedOK' /\ OnePlace' /\ ShownOK'
    <2>1. CASE p = NoPrompt
      <3>1. \A j \in Kinds, x \in Prompts : At(t, j, x)' <=> At(t, j, x)
        BY <1>1, <1>8, <1>9, <1>10, <2>1 DEF At, IsLeft
      <3>2. SamePlaces({})
        BY <1>2, <1>6, <3>1, PlacesAt
      <3>3. p.reply
        BY <2>1 DEF NoPrompt, Prompt
      <3>4. SameRecords({})
        BY <1>2, <1>5, <3>3, RecordsKept DEF history
      <3>5. Placed({})'
        BY DEF Placed
      <3> QED
        BY <1>7, <1>11, <3>2, <3>4, <3>5, Moves
    <2>2. CASE p # NoPrompt
      <3>1. PICK k \in {"arm", "turn"} :
              /\ p.msg \notin tangled => At(t, k, p)
              /\ k = "turn" => turn[t] = p /\ arm[t] = NoPrompt
              /\ k = "arm" => arm[t] = p /\ turn[t] = NoPrompt
        BY <1>8, <2>2
      <3>2. k \in Kinds /\ "left" \in Kinds
        BY DEF Kinds
      <3>3. /\ p.msg \in Msgs /\ Known(p.msg)
            /\ p.msg \notin tangled =>
                 /\ p.msg \in ToSet(book.list) <=> Listed(book, p)
                 /\ Listed(book, p) => Fits(k, p)
                 /\ Fact(t, k, p)
        BY <1>8, <2>2, <3>1, <3>2, PlaceFacts
      <3>4. Known(p.msg)' /\ Answers(p.msg)'
        <4>1. Known(p.msg)'
          BY <1>5, <3>3 DEF Known
        <4> QED
          BY <1>2, <3>3, <4>1 DEF Inv, AnswersOK, Answers, Known
      <3>5. p.msg \notin tangled /\ p.msg \in ToSet(book'.list) =>
              IF p.reply THEN book'.msg[p.msg].status = book.msg[p.msg].status
                         ELSE book'.msg[p.msg].status = "interrupted"
        BY <1>5, <3>3
      <3>6. \A j \in Kinds, x \in Prompts :
              j \in {"arm", "turn"} /\ At(t, j, x) => x = p
        BY <3>1 DEF At
      <3>7. \A j \in Kinds, x \in Prompts :
              At(t, j, x) /\ x.msg = p.msg => j = k /\ x = p
        <4> SUFFICES ASSUME NEW j \in Kinds, NEW x \in Prompts, At(t, j, x),
                            x.msg = p.msg
                     PROVE  j = k /\ x = p
          OBVIOUS
        <4>1. At(t, k, p)
          BY <3>1 DEF At
        <4>2. p \in Prompts
          BY <1>8
        <4> QED
          BY <3>2, <4>1, <4>2, SolePlace
      <3>8. CASE waits
        <4>1. p = s /\ k = "arm"
          BY <1>9, <2>2, <3>1, <3>8
        <4>2. \A j \in Kinds, x \in Prompts :
                x.msg # p.msg => (At(t, j, x)' <=> At(t, j, x))
          <5>1. \A j \in Kinds, x \in Prompts : j = "left" /\ At(t, j, x) => x = p
            BY <1>1, <4>1 DEF At, IsLeft
          <5> QED
            BY <1>10, <3>6, <4>1, <5>1
        <4>3. \A j \in Kinds, x \in Prompts :
                At(t, j, x)' /\ x.msg = p.msg => j = "left" /\ x = p
          BY <1>10, <3>7, <4>1
        <4>4. p.msg \notin tangled => At(t, "left", p)'
          BY <1>8, <1>10, <3>2, <3>8, <4>1
        <4>5. p.msg \notin tangled => Fact(t, "left", p)'
          <5> SUFFICES ASSUME p.msg \notin tangled
                       PROVE  Fact(t, "left", p)'
            OBVIOUS
          <5>1. p.msg \in ToSet(book'.list) => Fits("left", p)'
            BY <1>5, <3>3, <3>5, <4>1 DEF Fits, Ends, Final
          <5> QED
            BY <1>2, <1>5, <3>3, <3>4, <5>1 DEF Fact
        <4>6. UNCHANGED tangled /\ (p.msg \notin tangled => At(t, k, p))
          BY <1>2, <3>1
        <4> QED
          BY <1>6, <1>7, <1>8, <1>11, <3>2, <3>4, <4>2, <4>3, <4>4, <4>5, <4>6,
             Advance
      <3>9. CASE ~waits
        <4>1. \A j \in Kinds, x \in Prompts : j = "left" => ~At(t, j, x)
          BY <3>9 DEF At, IsLeft
        <4>2. \A j \in Kinds, x \in Prompts :
                x.msg # p.msg => (At(t, j, x)' <=> At(t, j, x))
          BY <1>10, <3>6, <3>9, <4>1
        <4>3. \A j \in Kinds, x \in Prompts : At(t, j, x)' => x.msg # p.msg
          BY <1>10, <3>7, <3>9
        <4>4. p.msg \notin tangled /\ p.msg \in ToSet(book'.list) =>
                book'.msg[p.msg].status \notin {"queued", "working"}
          <5>1. p.msg \notin tangled /\ p.reply /\ p.msg \in ToSet(book'.list) =>
                  book.msg[p.msg].status \in {"replying", "replied"}
            BY <1>5, <3>3 DEF Fits
          <5> QED
            BY <3>5, <5>1
        <4> QED
          BY <1>2, <1>6, <1>7, <1>8, <1>11, <3>1, <3>2, <3>4, <4>2, <4>3, <4>4,
             Leaves
      <3> QED
        BY <3>8, <3>9
    <2> QED
      BY <2>1, <2>2
  <1>13. Steady(t)'
    BY <1>2, <1>3, <1>7, <1>9 DEF Steady
  <1>14. Control' /\ NoneTwice'
    BY <1>2, <1>6, <1>13, ControlAt DEF Inv, NoneTwice
  <1>15. TypeOK'
    <2>1. paused' \in [Threads -> BOOLEAN]
      BY <1>2, PausesType DEF Inv
    <2> QED
      BY <1>2, <1>3, <1>4, <1>5, <2>1 DEF Inv, TypeOK, BookOK
  <1> QED
    BY <1>11, <1>12, <1>14, <1>15 DEF Inv

\* What every end of a turn does to its Thread.
LEMMA TurnEndsFacts ==
  ASSUME Inv, NEW t \in Threads, NEW how, TurnEnds(t, how), NEW p, p = turn[t]
  PROVE  /\ p \in Prompts /\ arm[t] = NoPrompt
         /\ send[t].at = "sent" => send[t].moved /\ send'[t].moved
         /\ IsPeer(p) <=> p # NoPrompt
         /\ p # NoPrompt => /\ Known(p.msg) /\ p.msg \in Msgs
                            /\ p.msg \notin tangled => At(t, "turn", p)
         /\ {arm', turn'} \subseteq [Threads -> Prompts]
         /\ live' \in [Threads -> Prompts] /\ base' \in [Threads -> {"ready", "working"}]
         /\ send' \in [Threads -> [at : SendSteps, what : Prompts, moved : BOOLEAN]]
         /\ turn'[t] = NoPrompt /\ arm'[t] = NoPrompt
         /\ send'[t].at = send[t].at /\ send'[t].what = send[t].what
         /\ Elsewhere(t) /\ Control'
         /\ UNCHANGED <<on, alone, revokes, stage, conv, floating, tangled>>
  <1>1. /\ live[t] # NoPrompt /\ live' = [live EXCEPT ![t] = NoPrompt]
        /\ base' = [base EXCEPT ![t] = "ready"] /\ turn' = [turn EXCEPT ![t] = NoPrompt]
        /\ arm' = [arm EXCEPT ![t] = NoPrompt] /\ Marks(t)
        /\ UNCHANGED <<on, alone, revokes, stage, conv, floating, tangled>>
    BY DEF TurnEnds, policy
  <1>2. /\ {arm, turn} \subseteq [Threads -> Prompts] /\ live \in [Threads -> Prompts]
        /\ base \in [Threads -> {"ready", "working"}] /\ NoPrompt \in Prompts
    BY PromptFacts DEF Inv, TypeOK
  <1>3. Steady(t)
    BY DEF Inv, Control
  <1>4. arm[t] = NoPrompt /\ (send[t].at = "sent" => send[t].moved)
    BY <1>1, <1>3 DEF Steady
  <1>5. p \in Prompts
    BY <1>2
  <1>6. p # NoPrompt => /\ IsPeer(p) /\ Known(p.msg) /\ p.msg \in Msgs
                        /\ p.msg \notin tangled => At(t, "turn", p)
    <2> SUFFICES ASSUME p # NoPrompt
                 PROVE  /\ IsPeer(p) /\ Known(p.msg) /\ p.msg \in Msgs
                        /\ p.msg \notin tangled => At(t, "turn", p)
      OBVIOUS
    <2>1. (p.msg \notin tangled => At(t, "turn", p)) /\ "turn" \in Kinds
      BY DEF At, Kinds
    <2> QED
      BY <1>5, <2>1, SomeFacts
  <1>7. /\ send' \in [Threads -> [at : SendSteps, what : Prompts, moved : BOOLEAN]]
        /\ send'[t].at = send[t].at /\ send'[t].what = send[t].what
        /\ send'[t].moved = (send[t].at = "sent")
        /\ \A u \in Threads \ {t} : send'[u] = send[u]
    BY <1>1, MarksFacts DEF Inv
  <1>8. /\ {arm', turn'} \subseteq [Threads -> Prompts]
        /\ live' \in [Threads -> Prompts] /\ base' \in [Threads -> {"ready", "working"}]
        /\ turn'[t] = NoPrompt /\ arm'[t] = NoPrompt /\ live'[t] = NoPrompt
        /\ \A u \in Threads \ {t} :
             /\ arm'[u] = arm[u] /\ turn'[u] = turn[u]
             /\ live'[u] = live[u] /\ base'[u] = base[u]
    BY <1>1, <1>2
  <1>9. Elsewhere(t)
    BY <1>1, <1>7, <1>8 DEF Elsewhere
  <1>10. Steady(t)'
    <2>1. send'[t].at # "idle" => IsPeer(send'[t].what)
      BY <1>3, <1>7 DEF Steady
    <2>2. IsPeer(send'[t].what) => send'[t].what # NoPrompt
      BY PromptFacts
    <2>3. \A x \in floating'[t] : IsPeer(x)
      BY <1>1, <1>3 DEF Steady
    <2> QED
      BY <1>4, <1>7, <1>8, <2>1, <2>2, <2>3 DEF Steady
  <1>11. Control'
    BY <1>9, <1>10, ControlAt DEF Inv
  <1> QED
    BY <1>1, <1>4, <1>5, <1>6, <1>7, <1>8, <1>9, <1>11, PromptFacts

\* A turn that ends and sends nothing.
LEMMA QuietEnd ==
  ASSUME Inv, NEW t \in Threads, NEW how, TurnEnds(t, how), NEW p, p = turn[t],
         UNCHANGED <<queue, answers>>, kick' \in [Threads -> BOOLEAN],
         paused' \in [Threads -> BOOLEAN], NEW st \in Ends,
         \/ book' = book /\ (p = NoPrompt \/ p.reply)
         \/ book' = Ended(book, p, st) /\ p # NoPrompt
  PROVE  Inv'
  <1>1. /\ p \in Prompts /\ arm[t] = NoPrompt
        /\ send[t].at = "sent" => send[t].moved /\ send'[t].moved
        /\ p # NoPrompt => /\ Known(p.msg) /\ p.msg \in Msgs
                           /\ p.msg \notin tangled => At(t, "turn", p)
        /\ {arm', turn'} \subseteq [Threads -> Prompts]
        /\ live' \in [Threads -> Prompts] /\ base' \in [Threads -> {"ready", "working"}]
        /\ send' \in [Threads -> [at : SendSteps, what : Prompts, moved : BOOLEAN]]
        /\ turn'[t] = NoPrompt /\ arm'[t] = NoPrompt
        /\ send'[t].at = send[t].at /\ send'[t].what = send[t].what
        /\ Elsewhere(t) /\ Control'
        /\ UNCHANGED <<on, alone, revokes, stage, conv, floating, tangled>>
    BY TurnEndsFacts
  <1>2. \A j \in Kinds, x \in Prompts :
          At(t, j, x)' <=> j # "turn" /\ At(t, j, x)
    BY <1>1 DEF At, InHand, IsLost, IsLeft
  <1>3. "turn" \in Kinds /\ Carries
    BY <1>1, CarriesAt DEF Kinds
  <1>4. BookOK(book, tangled)' /\ KnownOK' /\ AnswersOK' /\ PlacedOK' /\ OnePlace' /\ ShownOK'
    <2>1. CASE p = NoPrompt
      <3>1. \A j \in Kinds, x \in Prompts : At(t, j, x)' <=> At(t, j, x)
        BY <1>2, <2>1 DEF At
      <3>2. SamePlaces({})
        BY <1>1, <3>1, PlacesAt
      <3>3. BookOK(book, tangled)' /\ SameRecords({})
        BY <1>1, <2>1, RecordsSame
      <3>4. Placed({})'
        BY DEF Placed
      <3> QED
        BY <1>3, <3>2, <3>3, <3>4, Moves
    <2>2. CASE p # NoPrompt
      <3>1. /\ p.msg \in Msgs /\ Known(p.msg)
            /\ p.msg \notin tangled =>
                 /\ p.msg \in ToSet(book.list) <=> Listed(book, p)
                 /\ Listed(book, p) => Fits("turn", p)
                 /\ At(t, "turn", p)
        BY <1>1, <1>3, <2>2, PlaceFacts
      <3>2. /\ BookOK(book, tangled)' /\ SameRecords({p.msg}) /\ Answers(p.msg)'
            /\ p.msg \notin tangled /\ p.msg \in ToSet(book'.list) =>
                 book'.msg[p.msg].status \notin {"queued", "working"}
        <4>1. CASE book' = book /\ p.reply
          <5>1. BookOK(book, tangled)' /\ SameRecords({p.msg})
            BY <1>1, <4>1, RecordsSame
          <5>2. Answers(p.msg)'
            BY <1>1, <3>1, <4>1 DEF Inv, AnswersOK, Answers
          <5>3. p.msg \notin tangled /\ p.msg \in ToSet(book'.list) => book'.msg[p.msg].status = "replied"
            BY <3>1, <4>1 DEF Fits
          <5> QED
            BY <5>1, <5>2, <5>3
        <4>2. CASE book' = Ended(book, p, st)
          <5>1. /\ BookOK(book, tangled)' /\ SameRecords({p.msg}) /\ Answers(p.msg)'
                /\ p.msg \notin tangled =>
                     (p.msg \in ToSet(book'.list) => book'.msg[p.msg].status = st)
            BY <1>1, <1>3, <3>1, <4>2, EndsAt
          <5>2. st \notin {"queued", "working"}
            BY DEF Ends, Final
          <5> QED
            BY <5>1, <5>2
        <4> QED
          BY <2>2, <4>1, <4>2
      <3>3. \A j \in Kinds, x \in Prompts :
              x.msg # p.msg => (At(t, j, x)' <=> At(t, j, x))
        BY <1>2 DEF At
      <3>4. \A j \in Kinds, x \in Prompts : At(t, j, x)' => x.msg # p.msg
        <4> SUFFICES ASSUME NEW j \in Kinds, NEW x \in Prompts, At(t, j, x)',
                            x.msg = p.msg
                     PROVE  FALSE
          OBVIOUS
        <4>1. At(t, j, x) /\ j # "turn"
          BY <1>2
        <4>2. At(t, "turn", p)
          BY <3>1, <4>1 DEF At
        <4> QED
          BY <1>1, <1>3, <4>1, <4>2, SolePlace
      <3> QED
        BY <1>1, <1>3, <3>1, <3>2, <3>3, <3>4, Leaves
    <2> QED
      BY <2>1, <2>2
  <1>5. NoneTwice' /\ TypeOK'
    <2>1. book' \in Book
      BY <1>4 DEF BookOK
    <2> QED
      BY <1>1, <2>1 DEF Inv, TypeOK, NoneTwice
  <1> QED
    BY <1>1, <1>4, <1>5 DEF Inv

\* A turn whose final reply goes back.
LEMMA ReplyEnd ==
  ASSUME Inv, NEW t \in Threads, NEW how, TurnEnds(t, how), NEW p, p = turn[t],
         p # NoPrompt, ~p.reply, UNCHANGED paused,
         book' = Moved(book, p, "replying"),
         NEW r \in Prompts, r.msg = p.msg /\ r.pair = p.pair /\ r.reply,
         NEW o, o = Other(t), NEW q, q = Append(queue[o], r),
         queue' = [queue EXCEPT ![o] = q],
         kick' \in [Threads -> BOOLEAN],
         answers' = [answers EXCEPT ![p.msg] = IF @ < 2 THEN @ + 1 ELSE @]
  PROVE  Inv'
  <1>1. q = Append(queue[o], r) /\ o = Other(t)
    OBVIOUS
  <1>2. /\ p \in Prompts /\ arm[t] = NoPrompt
        /\ send[t].at = "sent" => send[t].moved /\ send'[t].moved
        /\ p # NoPrompt => /\ Known(p.msg) /\ p.msg \in Msgs
                           /\ p.msg \notin tangled => At(t, "turn", p)
        /\ {arm', turn'} \subseteq [Threads -> Prompts]
        /\ live' \in [Threads -> Prompts] /\ base' \in [Threads -> {"ready", "working"}]
        /\ send' \in [Threads -> [at : SendSteps, what : Prompts, moved : BOOLEAN]]
        /\ turn'[t] = NoPrompt /\ arm'[t] = NoPrompt
        /\ send'[t].at = send[t].at /\ send'[t].what = send[t].what
        /\ Elsewhere(t) /\ Control'
        /\ UNCHANGED <<on, alone, revokes, stage, conv, floating, tangled>>
    BY TurnEndsFacts
  <1>3. "turn" \in Kinds /\ "queue" \in Kinds /\ Carries
    BY <1>2, CarriesAt DEF Kinds
  <1>4. /\ p.msg \in Msgs /\ Known(p.msg)
        /\ p.msg \notin tangled =>
             /\ At(t, "turn", p) /\ Fact(t, "turn", p)
             /\ p.msg \in ToSet(book.list) <=> Listed(book, p)
             /\ Listed(book, p) => Fits("turn", p)
    BY <1>2, <1>3, PlaceFacts
  <1>5. r \in Prompts /\ r.msg = p.msg /\ r.pair = p.pair /\ r.reply = TRUE
    BY DEF Prompts
  <1>6. o \in Threads /\ o # t /\ Other(o) = t
    BY <1>1, OtherFacts
  <1>7. /\ answers' \in [Msgs -> 0..2]
        /\ p.msg \notin tangled => answers'[p.msg] = 1
        /\ \A m \in Msgs \ {p.msg} : answers'[m] = answers[m]
    <2>1. /\ answers \in [Msgs -> 0..2]
          /\ p.msg \notin tangled => answers[p.msg] = 0
      BY <1>4 DEF Inv, TypeOK, Fact
    <2> QED
      BY <1>4, <2>1
  <1>8. /\ BookOK(book, tangled)' /\ SameRecords({p.msg})
        /\ p.msg \notin tangled =>
             (p.msg \in ToSet(book'.list) => book'.msg[p.msg].status = "replying")
        /\ book'.id = book.id /\ book'.list = book.list /\ Known(p.msg)'
        /\ book'.msg[p.msg].from = book.msg[p.msg].from
    BY <1>2, <1>3, <1>7, MovesAt, ZenonT(60)
  <1>9. queue \in [Threads -> Seq(Prompts)] /\ queue[o] \in Seq(Prompts)
        /\ NoTwice(queue[o], tangled)
    BY <1>6 DEF Inv, TypeOK, NoneTwice
  <1>10. \A x : Has(queue[o], x) => x.msg # r.msg \/ r.msg \in tangled
    <2> SUFFICES ASSUME NEW x, Has(queue[o], x), x.msg = p.msg, p.msg \notin tangled
                 PROVE  FALSE
      BY <1>5
    <2>1. x \in Prompts /\ At(o, "queue", x)
      BY <1>9 DEF Has, At
    <2> QED
      BY <1>2, <1>3, <1>4, <1>6, <2>1, SolePlace
  <1>11. /\ q \in Seq(Prompts) /\ NoTwice(q, tangled)
         /\ \A x : Has(q, x) <=> Has(queue[o], x) \/ x = r
    BY <1>1, <1>5, <1>9, <1>10, AppendHas
  <1>12. /\ queue' \in [Threads -> Seq(Prompts)] /\ queue'[o] = q
         /\ \A u \in Threads \ {o} : queue'[u] = queue[u]
    BY <1>6, <1>9, <1>11
  <1>13. \A j \in Kinds, x \in Prompts :
           At(t, j, x)' <=> j # "turn" /\ At(t, j, x)
    BY <1>2, <1>6, <1>12 DEF At, InHand, IsLost, IsLeft
  <1>14. \A j \in Kinds, x \in Prompts :
           At(o, j, x)' <=> \/ At(o, j, x)
                            \/ j = "queue" /\ x = r /\ p.msg \notin tangled
    <2> SUFFICES ASSUME NEW j \in Kinds, NEW x \in Prompts
                 PROVE  At(o, j, x)' <=>
                          \/ At(o, j, x)
                          \/ j = "queue" /\ x = r /\ p.msg \notin tangled
      OBVIOUS
    <2>1. send'[o] = send[o] /\ arm'[o] = arm[o] /\ turn'[o] = turn[o]
      BY <1>2, <1>6 DEF Elsewhere
    <2>2. CASE j = "queue"
      BY <1>2, <1>5, <1>11, <1>12, <2>2 DEF At
    <2>3. CASE j # "queue"
      BY <1>2, <2>1, <2>3 DEF At, InHand, IsLost, IsLeft
    <2> QED
      BY <2>2, <2>3
  <1>15. \A u \in Threads : u = t \/ u = o
    BY <1>1, OtherFacts
  <1>16. SamePlaces({p.msg})
    <2>1. \A j \in Kinds, x \in Prompts :
            j = "turn" /\ At(t, j, x) => x.msg = p.msg
      BY DEF At
    <2>2. \A j \in Kinds, x \in Prompts :
            x.msg # p.msg => (At(t, j, x)' <=> At(t, j, x))
      BY <1>13, <2>1
    <2>3. \A j \in Kinds, x \in Prompts :
            x.msg # p.msg => (At(o, j, x)' <=> At(o, j, x))
      BY <1>5, <1>14
    <2>4. \A u \in Threads, j \in Kinds, x \in Prompts :
            x.msg # p.msg => (At(u, j, x)' <=> At(u, j, x))
      BY <1>15, <2>2, <2>3
    <2> QED
      BY <2>4 DEF SamePlaces
  <1>17. \A u \in Threads, j \in Kinds, x \in Prompts :
           At(u, j, x)' /\ x.msg = p.msg => u = o /\ j = "queue" /\ x = r
    <2>1. \A u \in Threads, j \in Kinds, x \in Prompts :
            At(u, j, x) /\ x.msg = p.msg => u = t /\ j = "turn"
      <3> SUFFICES ASSUME NEW u \in Threads, NEW j \in Kinds, NEW x \in Prompts,
                          At(u, j, x), x.msg = p.msg
                   PROVE  u = t /\ j = "turn"
        OBVIOUS
      <3>1. At(t, "turn", p)
        BY <1>4 DEF At
      <3> QED
        BY <1>2, <1>3, <3>1, SolePlace
    <2> QED
      BY <1>6, <1>13, <1>14, <1>15, <2>1
  <1>18. ASSUME p.msg \notin tangled
         PROVE  Fact(o, "queue", r)'
    <2>1. r.msg \in ToSet(book'.list) => Fits("queue", r)'
      BY <1>4, <1>5, <1>8, <1>18 DEF Fact, Fits
    <2>2. r.pair <= book'.id
      BY <1>4, <1>5, <1>8, <1>18 DEF Fact
    <2>3. book'.msg[r.msg].from = o
      BY <1>1, <1>4, <1>5, <1>8, <1>18 DEF Fact
    <2> QED
      BY <1>4, <1>5, <1>7, <1>8, <1>18, <2>1, <2>2, <2>3 DEF Fact, Known
  <1>19. Placed({p.msg})'
    <2>1. CASE p.msg \in tangled
      <3>1. Absent(p.msg)' /\ Answers(p.msg)'
        BY <1>2, <2>1 DEF Absent, At, Answers
      <3> QED
        BY <3>1 DEF Placed
    <2>2. CASE p.msg \notin tangled
      <3>1. At(o, "queue", r)'
        BY <1>3, <1>5, <1>14, <2>2
      <3>2. Alone(p.msg, o, "queue", r)'
        BY <1>5, <1>17, <1>18, <2>2, <3>1 DEF Alone
      <3>3. Answers(p.msg)'
        BY <1>7, <1>8, <2>2 DEF Answers, Known
      <3> QED
        BY <1>3, <1>5, <1>6, <3>2, <3>3 DEF Placed
    <2> QED
      BY <2>1, <2>2
  <1>20. KnownOK' /\ AnswersOK' /\ PlacedOK' /\ OnePlace' /\ ShownOK'
    <2>1. {p.msg} \in SUBSET Msgs
      BY <1>4
    <2> QED
      BY <1>3, <1>8, <1>16, <1>19, <2>1, Moves
  <1>21. NoneTwice' /\ TypeOK'
    <2>1. book' \in Book
      BY <1>8 DEF BookOK
    <2>2. NoneTwice'
      BY <1>2, <1>11, <1>12 DEF Inv, NoneTwice
    <2> QED
      BY <1>2, <1>7, <1>12, <2>1, <2>2 DEF Inv, TypeOK
  <1> QED
    BY <1>2, <1>8, <1>20, <1>21 DEF Inv

LEMMA TurnEndsKeeps ==
  ASSUME Inv, NEW t \in Threads, NEW how \in {"completed", "stopped", "failed"},
         TurnEnds(t, how)
  PROVE  Inv'
  <1>1. PICK p, o : p = turn[t] /\ o = Other(t)
    OBVIOUS
  <1>2. p \in Prompts /\ arm[t] = NoPrompt /\ (IsPeer(p) <=> p # NoPrompt)
    BY <1>1, TurnEndsFacts
  <1>3. (IF IsPeer(turn[t]) THEN turn[t] ELSE arm[t]) = p
    BY <1>1, <1>2
  <1>4. \/ how = "completed" /\ p # NoPrompt /\ ~p.reply /\ Replies(t, p)
           /\ UNCHANGED paused
        \/ (p = NoPrompt \/ p.reply) /\ Kicked(t)
           /\ UNCHANGED <<book, queue, paused, answers>>
        \/ /\ how \in {"stopped", "failed"} /\ Pauses(t)
           /\ book' = IF IsPeer(p) /\ ~p.reply THEN Ended(book, p, how) ELSE book
           /\ UNCHANGED <<queue, kick, answers>>
    BY <1>1, <1>2, <1>3 DEF TurnEnds
  <1>5. kick \in [Threads -> BOOLEAN] /\ paused \in [Threads -> BOOLEAN]
        /\ o \in Threads
    BY <1>1, OtherFacts DEF Inv, TypeOK
  <1>6. {"undelivered", "stopped", "failed"} \subseteq Ends
    BY DEF Ends, Final
  <1>7. CASE p # NoPrompt /\ ~p.reply /\ Replies(t, p) /\ UNCHANGED paused
    <2>1. CASE Blocked(p) \/ Len(queue[o]) >= MaxQueue
      <3>1. /\ book' = Ended(book, p, "undelivered") /\ UNCHANGED <<queue, answers>>
            /\ kick' = [kick EXCEPT ![t] = @ \/ (queue[t] # <<>> /\ ~paused[t])]
        BY <1>1, <1>7, <2>1 DEF Replies
      <3>2. kick' \in [Threads -> BOOLEAN] /\ paused' \in [Threads -> BOOLEAN]
        BY <1>5, <1>7, <3>1
      <3> QED
        BY <1>1, <1>6, <1>7, <3>1, <3>2, QuietEnd
    <2>2. CASE ~(Blocked(p) \/ Len(queue[o]) >= MaxQueue)
      <3>1. /\ book' = Moved(book, p, "replying")
            /\ queue' = [queue EXCEPT ![Other(t)] = Append(@, [p EXCEPT !.reply = TRUE])]
            /\ kick' = [kick EXCEPT ![t] = @ \/ (queue[t] # <<>> /\ ~paused[t]),
                                    ![o] = @ \/ (~Busy(o) /\ ~paused[o])]
            /\ answers' = [answers EXCEPT ![p.msg] = IF @ < 2 THEN @ + 1 ELSE @]
        BY <1>1, <1>7, <2>2 DEF Replies
      <3>2. kick' \in [Threads -> BOOLEAN]
        BY <1>5, <3>1
      <3>3. PICK r : r = [p EXCEPT !.reply = TRUE]
        OBVIOUS
      <3>4. r \in Prompts /\ r.msg = p.msg /\ r.pair = p.pair /\ r.reply
        BY <1>2, <3>3 DEF Prompts
      <3>5. PICK q : q = Append(queue[o], r)
        OBVIOUS
      <3>6. queue' = [queue EXCEPT ![o] = q]
        BY <1>1, <3>1, <3>3, <3>5
      <3>7. book' = Moved(book, p, "replying")
        BY <3>1
      <3>8. answers' = [answers EXCEPT ![p.msg] = IF @ < 2 THEN @ + 1 ELSE @]
        BY <3>1
      <3> QED
        BY <1>1, <1>7, <3>2, <3>4, <3>5, <3>6, <3>7, <3>8, ReplyEnd
    <2> QED
      BY <2>1, <2>2
  <1>8. CASE (p = NoPrompt \/ p.reply) /\ Kicked(t)
             /\ UNCHANGED <<book, queue, paused, answers>>
    <2>1. kick' \in [Threads -> BOOLEAN] /\ paused' \in [Threads -> BOOLEAN]
      BY <1>5, <1>8, KickedType DEF Inv
    <2> QED
      BY <1>1, <1>6, <1>8, <2>1, QuietEnd
  <1>9. CASE /\ how \in {"stopped", "failed"} /\ Pauses(t)
             /\ book' = IF IsPeer(p) /\ ~p.reply THEN Ended(book, p, how) ELSE book
             /\ UNCHANGED <<queue, kick, answers>>
    <2>1. kick' \in [Threads -> BOOLEAN] /\ paused' \in [Threads -> BOOLEAN]
      BY <1>5, <1>9, PausesType DEF Inv
    <2>2. p.reply \in BOOLEAN /\ how \in Ends
      BY <1>2, <1>6, <1>9 DEF Prompts
    <2>3. \/ book' = book /\ (p = NoPrompt \/ p.reply)
          \/ book' = Ended(book, p, how) /\ p # NoPrompt
      BY <1>2, <1>9, <2>2
    <2> QED
      BY <1>1, <1>9, <2>1, <2>2, <2>3, QuietEnd
  <1> QED
    BY <1>4, <1>7, <1>8, <1>9

-----------------------------------------------------------------------------
(* The specification.                                                      *)

LEMMA InitInv ==
  ASSUME Init
  PROVE  Inv
  <1>1. PICK f, e, M :
          /\ f \in Threads /\ e = <<>>
          /\ M = [m \in Msgs |-> [status |-> "none", from |-> f, allowance |-> 0]]
          /\ book = [id |-> 0, state |-> "none", linked |-> FALSE, used |-> 0,
                     allowance |-> 0, held |-> None, list |-> e, msg |-> M]
    BY DEF Init
  <1>2. e \in Seq(Msgs) /\ e \in Seq(Prompts) /\ DOMAIN e = {} /\ ToSet(e) = {}
    BY <1>1 DEF ToSet
  <1>3. M \in [Msgs -> [status : Statuses, from : Threads, allowance : 0..MaxAllow]]
    BY <1>1, Bounds DEF Statuses
  <1>4. book \in Book
    <2>1. 0 \in 0..MaxPairs /\ 0 \in 0..Limit /\ 0 \in 0..MaxAllow
      BY Bounds
    <2> QED
      BY <1>1, <1>2, <1>3, <2>1 DEF Book
  <1>5. BookOK(book, tangled)
    <2>1. /\ book.list = e /\ book.used = 0 /\ book.held = None
      BY <1>1
    <2>2. Owed(book) = {}
      BY <1>2, <2>1 DEF Owed
    <2>3. 2 * Cardinality(Owed(book)) <= book.used
      BY <2>1, <2>2, FS_EmptySet
    <2> QED
      BY <1>1, <1>2, <1>4, <2>1, <2>3 DEF BookOK
  <1>6. /\ on = TRUE /\ alone = FALSE /\ revokes = 0
        /\ stage = [t \in Threads |-> "active"]
        /\ queue = [t \in Threads |-> e] /\ paused = [t \in Threads |-> FALSE]
        /\ base = [t \in Threads |-> "ready"] /\ conv = [t \in Threads |-> TRUE]
        /\ kick = [t \in Threads |-> FALSE] /\ send = [t \in Threads |-> Idle]
        /\ arm = [t \in Threads |-> NoPrompt] /\ turn = [t \in Threads |-> NoPrompt]
        /\ live = [t \in Threads |-> NoPrompt] /\ floating = [t \in Threads |-> {}]
        /\ answers = [m \in Msgs |-> 0] /\ tangled = {}
    BY <1>1 DEF Init
  <1>7. Idle.at = "idle" /\ Idle \in [at : SendSteps, what : Prompts, moved : BOOLEAN]
    BY PromptFacts DEF Idle, SendSteps
  <1>8. TypeOK
    <2>1. NoPrompt \in Prompts /\ {} \in SUBSET Prompts /\ 0 \in 0..2
          /\ 0 \in 0..MaxRevokes
      BY PromptFacts, Bounds
    <2>2. /\ queue \in [Threads -> Seq(Prompts)]
          /\ send \in [Threads -> [at : SendSteps, what : Prompts, moved : BOOLEAN]]
      BY <1>2, <1>6, <1>7
    <2>3. /\ {on, alone} \subseteq BOOLEAN
          /\ stage \in [Threads -> {"active", "settled"}]
          /\ base \in [Threads -> {"ready", "working"}]
          /\ {paused, conv, kick} \subseteq [Threads -> BOOLEAN]
          /\ {arm, turn} \subseteq [Threads -> Prompts]
          /\ live \in [Threads -> Prompts]
          /\ floating \in [Threads -> SUBSET Prompts]
          /\ answers \in [Msgs -> 0..2] /\ revokes \in 0..MaxRevokes
      BY <1>6, <2>1
    <2> QED
      BY <1>4, <1>6, <2>2, <2>3 DEF TypeOK
  <1>9. Control
    BY <1>6, <1>7 DEF Control, Steady
  <1>10. \A t \in Threads, k \in Kinds, p \in Prompts : ~At(t, k, p)
    BY <1>2, <1>6, <1>7 DEF At, InHand, IsLost, IsLeft, Has
  <1>11. AnswersOK
    BY <1>6 DEF AnswersOK, Answers
  <1>12. PlacedOK /\ OnePlace
    BY <1>10 DEF PlacedOK, OnePlace
  <1>13. NoneTwice
    BY <1>2, <1>6 DEF NoneTwice, NoTwice
  <1>14. KnownOK
    BY <1>6, <1>7 DEF KnownOK
  <1>15. ShownOK
    BY <1>1, <1>2 DEF ShownOK
  <1> QED
    BY <1>5, <1>8, <1>9, <1>11, <1>12, <1>13, <1>14, <1>15 DEF Inv

LEMMA OwnerKeeps ==
  ASSUME Inv, OwnerStep
  PROVE  Inv'
  <1>1. CASE \E link, reached \in BOOLEAN : Allow(link, reached)
    BY <1>1, AllowKeeps
  <1>2. CASE Deny
    BY <1>2, DenyKeeps
  <1>3. CASE Reset
    BY <1>3, ResetKeeps
  <1>4. CASE Switch \/ SetMode
    BY <1>4, SettingKeeps
  <1>5. CASE \E t \in Threads : Settle(t)
    BY <1>5, SettleKeeps
  <1>6. CASE \E t \in Threads : Reopen(t) \/ ResumeQueue(t)
    BY <1>6, ReopenKeeps
  <1>7. CASE \E t \in Threads : \E i \in DOMAIN queue[t] : CancelQueued(t, i)
    BY <1>7, CancelKeeps
  <1>8. CASE \E t \in Threads : ClearQueue(t)
    BY <1>8, ClearKeeps
  <1> QED
    BY <1>1, <1>2, <1>3, <1>4, <1>5, <1>6, <1>7, <1>8, Zenon DEF OwnerStep

LEMMA DrainKeeps ==
  ASSUME Inv, NEW t \in Threads, DrainStep(t)
  PROVE  Inv'
  <1>1. CASE \E reached \in BOOLEAN : DrainTakes(t, reached)
    BY <1>1, TakesKeeps
  <1>2. CASE DrainChecks(t) \/ TurnRuns(t)
    BY <1>2, ChecksKeeps
  <1>3. CASE Opens(t)
    BY <1>3, OpensKeeps
  <1>4. CASE Unopened(t)
    BY <1>4, UnopenedKeeps
  <1>5. CASE Commits(t)
    BY <1>5, CommitsKeeps
  <1>6. CASE Accepts(t)
    BY <1>6, AcceptsKeeps
  <1>7. CASE Refuses(t)
    BY <1>7, RefusesKeeps, TanglesKeeps
  <1>8. CASE Uncertain(t)
    BY <1>8, UncertainKeeps
  <1>9. CASE DrainEnds(t)
    BY <1>9, DrainEndsKeeps
  <1>10. CASE AcceptsLater(t)
    BY <1>10, AcceptsLaterKeeps
  <1> QED
    BY <1>1, <1>2, <1>3, <1>4, <1>5, <1>6, <1>7, <1>8, <1>9, <1>10, Zenon
       DEF DrainStep

LEMMA ProviderKeeps ==
  ASSUME Inv, NEW t \in Threads, ProviderStep(t)
  PROVE  Inv'
  <1>1. CASE LateTurn(t)
    BY <1>1, LateTurnKeeps
  <1>2. CASE OwnTurnBegins(t)
    BY <1>2, OwnTurnKeeps
  <1>3. CASE Exits(t)
    BY <1>3, ExitsKeeps
  <1>4. CASE \E how \in {"completed", "stopped", "failed"} : TurnEnds(t, how)
    BY <1>4, TurnEndsKeeps
  <1> QED
    BY <1>1, <1>2, <1>3, <1>4, Zenon DEF ProviderStep

LEMMA NextKeeps ==
  ASSUME Inv, [Next]_vars
  PROVE  Inv'
  <1>1. CASE OwnerStep
    BY <1>1, OwnerKeeps
  <1>2. CASE Restart
    BY <1>2, RestartKeeps
  <1>3. CASE \E t \in Threads : \E m \in Msgs : Send(t, m)
    BY <1>3, SendKeeps
  <1>4. CASE \E t \in Threads : DrainStep(t)
    BY <1>4, DrainKeeps
  <1>5. CASE \E t \in Threads : ProviderStep(t)
    BY <1>5, ProviderKeeps
  <1>6. CASE UNCHANGED vars
    <2>1. /\ UNCHANGED <<on, alone, revokes, book, answers, tangled, live, floating>>
          /\ UNCHANGED <<stage, queue, paused, base, conv, kick, send, arm, turn>>
      BY <1>6 DEF vars, policy, threadVars, provVars, history
    <2>2. BookOK(book, tangled)' /\ SameRecords({})
      BY <2>1, RecordsSame
    <2>3. Control'
      BY <2>1, ControlKept DEF Inv
    <2>4. TypeOK'
      BY <2>1 DEF Inv, TypeOK
    <2> QED
      BY <2>1, <2>2, <2>3, <2>4, StillKeeps
  <1> QED
    BY <1>1, <1>2, <1>3, <1>4, <1>5, <1>6, Zenon DEF Next

\* The record of every message of the pair, its place, and its count agree,
\* whatever turns the provider begins and whenever.  Of a message that was
\* refused after a turn had taken its arm (tangled) only the record is said.
THEOREM InvHolds == Spec => []Inv
  <1>1. Init => Inv
    BY InitInv
  <1>2. Inv /\ [Next]_vars => Inv'
    BY NextKeeps
  <1> QED
    BY <1>1, <1>2, PTL DEF Spec

\* Every variable keeps its shape.
THEOREM TypeCorrect == Spec => []TypeOK
  <1>1. Inv => TypeOK
    BY DEF Inv
  <1> QED
    BY <1>1, InvHolds, PTL

\* A message gets one reply at most, unless it is tangled.
THEOREM OneAnswer == Spec => []AnsweredOnce
  <1>1. Inv => AnsweredOnce
    BY DEF Inv, AnswersOK, Answers, AnsweredOnce
  <1> QED
    BY <1>1, InvHolds, PTL

\* What was delivered or is to be delivered on the current allowance is within
\* what the pair has counted, unless one of its messages is tangled.
THEOREM DeliveriesCounted == Spec => []UsedCoversDeliveries
  <1>1. Inv => UsedCoversDeliveries
    BY DEF Inv, BookOK, UsedCoversDeliveries, Clean, Cleared
  <1> QED
    BY <1>1, InvHolds, PTL

LEMMA ShownIsTrue ==
  ASSUME Inv
  PROVE  StatusIsTrue
  <1> SUFFICES ASSUME NEW m \in ToSet(book.list) \ tangled
               PROVE  LET f == book.msg[m].from
                          p == Prompt(m, book.id, FALSE)
                          r == Prompt(m, book.id, TRUE)
                      IN  /\ book.msg[m].status = "queued" => Waits(Other(f), p)
                          /\ book.msg[m].status = "working" => turn[Other(f)] = p
                          /\ (book.msg[m].status = "held") <=> (book.held = m)
                          /\ book.msg[m].status \in Final =>
                               /\ ~MayRun(Other(f), p)
                               /\ book.msg[m].status # "replied" => ~MayRun(f, r)
    BY Zenon DEF StatusIsTrue
  <1>p. PICK f, p, r : /\ f = book.msg[m].from /\ p = Prompt(m, book.id, FALSE)
                       /\ r = Prompt(m, book.id, TRUE)
    OBVIOUS
  <1>1. book \in Book /\ m \in Msgs /\ book.id \in 0..MaxPairs
    BY OwedFinite, BookFields DEF Inv, BookOK
  <1>2. f \in Threads /\ Other(f) \in Threads /\ Other(Other(f)) = f /\ Other(f) # f
    <2>1. f \in Threads
      BY <1>1, <1>p DEF Book
    <2> QED
      BY <2>1, OtherFacts
  <1>3. /\ p \in Prompts /\ IsPeer(p) /\ p.msg = m /\ p.reply = FALSE
        /\ r \in Prompts /\ IsPeer(r) /\ r.msg = m /\ r.reply = TRUE
    BY <1>1, <1>p, NewPrompt
  <1>4. p # NoPrompt /\ r # NoPrompt
    BY <1>3, PromptFacts
  <1>5. ASSUME NEW t \in Threads, NEW k \in Kinds, NEW x \in Prompts,
               At(t, k, x), x.msg = m,
               book.msg[m].status \in {"queued", "working"}
        PROVE  t = Other(f) /\ x = p
    <2>1. Fact(t, k, x) /\ Fits(k, x)
      BY <1>5, PlaceFacts DEF Fact
    <2>2. ~x.reply
      <3>1. x.reply => book.msg[m].status \notin {"queued", "working"}
        BY <1>5, <2>1 DEF Fits, Kinds, Ends, Final
      <3> QED
        BY <1>5, <3>1
    <2>3. f = Other(t)
      BY <1>5, <1>p, <2>1, <2>2 DEF Fact
    <2>4. x = p
      <3>1. x.reply = FALSE /\ x.pair = book.id
        BY <2>1, <2>2 DEF Fits, Prompts
      <3> QED
        BY <1>5, <1>p, <3>1 DEF Prompt, Prompts
    <2> QED
      BY <2>3, <2>4, OtherFacts
  <1>6. book.msg[m].status \in {"queued", "working"} =>
          \E k \in Kinds : At(Other(f), k, p)
    <2> SUFFICES ASSUME book.msg[m].status \in {"queued", "working"}
                 PROVE  \E k \in Kinds : At(Other(f), k, p)
      OBVIOUS
    <2>1. PICK t \in Threads, k \in Kinds, x \in Prompts : x.msg = m /\ At(t, k, x)
      BY DEF Inv, ShownOK, Shown
    <2> QED
      BY <1>5, <2>1
  <1>7. \A k \in Kinds : At(Other(f), k, p) => Fits(k, p)
    BY <1>2, <1>3, PlaceFacts DEF Fact
  <1>8. book.msg[m].status = "queued" => Waits(Other(f), p)
    <2> SUFFICES ASSUME book.msg[m].status = "queued"
                 PROVE  Waits(Other(f), p)
      OBVIOUS
    <2>1. PICK k \in Kinds : At(Other(f), k, p) /\ Fits(k, p)
      BY <1>6, <1>7
    <2>2. k # "turn" /\ k # "left"
      BY <1>3, <2>1 DEF Fits, Ends, Final
    <2>3. CASE k = "queue"
      BY <2>1, <2>3 DEF At, Has, Waits, InQueue
    <2>4. CASE k \in {"hand", "lost"}
      BY <2>1, <2>4 DEF At, InHand, IsLost, Waits, OnWay
    <2>5. CASE k = "arm"
      BY <2>1, <2>5 DEF At, Waits
    <2> QED
      BY <2>2, <2>3, <2>4, <2>5 DEF Kinds
  <1>9. book.msg[m].status = "working" => turn[Other(f)] = p
    <2> SUFFICES ASSUME book.msg[m].status = "working"
                 PROVE  turn[Other(f)] = p
      OBVIOUS
    <2>1. PICK k \in Kinds : At(Other(f), k, p) /\ Fits(k, p)
      BY <1>6, <1>7
    <2>2. k = "turn"
      BY <1>3, <2>1 DEF Fits, Ends, Final, Kinds
    <2> QED
      BY <2>1, <2>2 DEF At
  <1>10. (book.msg[m].status = "held") <=> (book.held = m)
    <2>1. m # None
      BY <1>1, Bounds
    <2> QED
      BY <2>1 DEF Inv, BookOK, Entry
  <1>11. ASSUME NEW t \in Threads, NEW x \in {p, r}, MayRun(t, x)
         PROVE  \E k \in {"queue", "arm", "turn", "hand"} : At(t, k, x) /\ Fits(k, x)
    <2>1. x \in Prompts /\ x # NoPrompt /\ x.msg = m
      BY <1>3, <1>4
    <2>2. \E k \in {"queue", "arm", "turn", "hand"} : At(t, k, x)
      BY <1>11, <2>1 DEF MayRun, InQueue, At, Has, InHand
    <2>3. {"queue", "arm", "turn", "hand"} \subseteq Kinds
      BY DEF Kinds
    <2> QED
      BY <2>1, <2>2, <2>3, PlaceFacts DEF Fact
  <1>12. MayRun(Other(f), p) => book.msg[m].status \in {"queued", "working"}
    BY <1>2, <1>3, <1>11 DEF Fits
  <1>13. MayRun(f, r) => book.msg[m].status \in {"replying", "replied"}
    BY <1>2, <1>3, <1>11 DEF Fits
  <1> QED
    BY <1>8, <1>9, <1>10, <1>12, <1>13, <1>p DEF Final

\* What the pair shows of a message that is not tangled is where the message is.
THEOREM ShownStatusIsTrue == Spec => []StatusIsTrue
  <1>1. Inv => StatusIsTrue
    BY ShownIsTrue
  <1> QED
    BY <1>1, InvHolds, PTL

-----------------------------------------------------------------------------
(* What the owner took back is not sent.                                   *)

SendShape ==
  /\ DOMAIN send = Threads
  /\ \A t \in Threads : send[t] \in [at : SendSteps, what : {send[t].what},
                                     moved : BOOLEAN]
  /\ send = [t \in Threads |-> send[t]]

\* Only the commit point sends, and it looks first.
Sends(t) == Goto(t, "sent") /\ ~Revoked(send[t].what)
Waiting(t) == \E step \in SendSteps \ {"sent"} : Goto(t, step)
SendMoves(t) ==
  \/ Sends(t) \/ Waiting(t) \/ Marks(t) \/ send' = [send EXCEPT ![t] = Idle]
  \/ \E p : send' = [send EXCEPT ![t] = [Idle EXCEPT !.at = "taken", !.what = p]]

LEMMA SendMovesOnly ==
  ASSUME [Next]_vars
  PROVE  \/ UNCHANGED send \/ send' = [t \in Threads |-> Idle]
         \/ \E t \in Threads : SendMoves(t)
  <1>1. CASE OwnerStep
    BY <1>1 DEF OwnerStep, Allow, Deny, Reset, Switch, SetMode, Settle, Reopen,
                CancelQueued, ClearQueue, ResumeQueue, threadVars
  <1>2. CASE Restart
    BY <1>2 DEF Restart
  <1>3. CASE \E t \in Threads : \E m \in Msgs : Send(t, m)
    BY <1>3 DEF Send
  <1>4. ASSUME NEW t \in Threads, DrainStep(t)
        PROVE  UNCHANGED send \/ SendMoves(t)
    <2>1. {"taken", "checked", "took", "rejected", "busy"} \subseteq SendSteps \ {"sent"}
      BY DEF SendSteps
    <2>2. CASE \E reached \in BOOLEAN : DrainTakes(t, reached)
      BY <2>2 DEF DrainTakes, SendMoves
    <2>3. CASE DrainChecks(t) \/ Unopened(t) \/ TurnRuns(t) \/ Refuses(t) \/ Uncertain(t)
      BY <2>1, <2>3 DEF DrainChecks, Drops, Unopened, TurnRuns, Refuses, Uncertain,
                        SendMoves, Waiting
    <2>4. CASE Opens(t)
      BY <2>4 DEF Opens
    <2>5. CASE Commits(t)
      BY <2>5 DEF Commits, Drops, SendMoves, Sends
    <2>6. CASE Accepts(t)
      BY <2>1, <2>6 DEF Accepts, SendMoves, Waiting, Goto
    <2>7. CASE DrainEnds(t)
      BY <2>7 DEF DrainEnds, SendMoves
    <2>8. CASE AcceptsLater(t)
      BY <2>1, <2>8 DEF AcceptsLater, SendMoves, Waiting
    <2> QED
      BY <1>4, <2>2, <2>3, <2>4, <2>5, <2>6, <2>7, <2>8 DEF DrainStep
  <1>5. ASSUME NEW t \in Threads, ProviderStep(t)
        PROVE  UNCHANGED send \/ SendMoves(t)
    BY <1>5 DEF ProviderStep, LateTurn, OwnTurnBegins, Exits, TurnEnds, SendMoves
  <1>6. CASE UNCHANGED vars
    BY <1>6 DEF vars, threadVars
  <1> QED
    BY <1>1, <1>2, <1>3, <1>4, <1>5, <1>6 DEF Next

LEMMA SendChanges ==
  ASSUME SendShape, NEW t \in Threads, SendMoves(t)
  PROVE  /\ SendShape'
         /\ \A u \in Threads \ {t} : send'[u] = send[u]
         /\ send[t].at # "sent" /\ send'[t].at = "sent" => Sends(t)
  <1>1. PICK w : w = send[t].what
    OBVIOUS
  <1>2. send[t] \in [at : SendSteps, what : {w}, moved : BOOLEAN]
    BY <1>1 DEF SendShape
  <1> DEFINE New(r) == /\ send' = [send EXCEPT ![t] = r]
                       /\ r \in [at : SendSteps, what : {r.what}, moved : BOOLEAN]
  <1>3. ASSUME NEW r, New(r)
        PROVE  SendShape' /\ send'[t] = r
               /\ \A u \in Threads \ {t} : send'[u] = send[u]
    <2>1. /\ DOMAIN send' = Threads /\ send'[t] = r
          /\ \A u \in Threads \ {t} : send'[u] = send[u]
          /\ send' = [u \in Threads |-> send'[u]]
      BY <1>3 DEF SendShape
    <2> QED
      BY <1>3, <2>1 DEF SendShape
  <1>4. CASE Sends(t) \/ Waiting(t)
    <2>1. PICK step \in SendSteps : /\ send' = [send EXCEPT ![t].at = step]
                                    /\ step = "sent" => Sends(t)
      BY <1>4 DEF Sends, Waiting, Goto, SendSteps
    <2>2. PICK r : r = [send[t] EXCEPT !.at = step]
      OBVIOUS
    <2>3. New(r) /\ r.at = step
      BY <1>2, <2>1, <2>2
    <2> QED
      BY <1>3, <2>1, <2>3
  <1>5. CASE Marks(t)
    <2>1. PICK b \in BOOLEAN : b = (send[t].at = "sent")
      OBVIOUS
    <2>2. PICK r : r = [send[t] EXCEPT !.moved = b]
      OBVIOUS
    <2>3. send' = [send EXCEPT ![t].moved = b]
      BY <1>5, <2>1 DEF Marks
    <2>4. New(r) /\ r.at = send[t].at
      BY <1>2, <2>2, <2>3
    <2> QED
      BY <1>3, <2>4
  <1>6. CASE send' = [send EXCEPT ![t] = Idle]
    <2>1. New(Idle) /\ Idle.at = "idle"
      BY <1>6 DEF Idle, SendSteps
    <2> QED
      BY <1>3, <2>1
  <1>7. CASE \E p : send' = [send EXCEPT ![t] = [Idle EXCEPT !.at = "taken",
                                                             !.what = p]]
    <2>1. PICK p, r : /\ r = [Idle EXCEPT !.at = "taken", !.what = p]
                      /\ send' = [send EXCEPT ![t] = r]
      BY <1>7
    <2>2. New(r) /\ r.at = "taken"
      BY <2>1 DEF Idle, SendSteps
    <2> QED
      BY <1>3, <2>2
  <1> QED
    BY <1>4, <1>5, <1>6, <1>7 DEF SendMoves

\* A prompt of the pair is not given to the provider when the owner's decision,
\* the switch, the stages or the modes stand against it, whatever was true when
\* the send began.
THEOREM NotSentWhenRevoked == Spec => RevokedIsNotSent
  <1>1. Init => SendShape
    BY DEF Init, SendShape, Idle, SendSteps
  <1>2. ASSUME SendShape, [Next]_vars
        PROVE  /\ SendShape'
               /\ \A t \in Threads :
                    send[t].at # "sent" /\ send'[t].at = "sent" => Sends(t)
    <2>1. CASE UNCHANGED send
      BY <1>2, <2>1 DEF SendShape
    <2>2. CASE send' = [t \in Threads |-> Idle]
      BY <2>2 DEF SendShape, Idle, SendSteps
    <2>3. CASE \E t \in Threads : SendMoves(t)
      <3>1. PICK t \in Threads : SendMoves(t)
        BY <2>3
      <3> QED
        BY <1>2, <3>1, SendChanges
    <2> QED
      BY <1>2, <2>1, <2>2, <2>3, SendMovesOnly
  <1>3. SendShape /\ [Next]_vars =>
          [\A t \in Threads :
             send[t].at # "sent" /\ send'[t].at = "sent" /\ IsPeer(send[t].what)
               => ~Blocked(send[t].what)]_vars
    BY <1>2 DEF Sends, Revoked
  <1>4. SendShape /\ [Next]_vars => SendShape'
    BY <1>2
  <1> QED
    BY <1>1, <1>3, <1>4, PTL DEF Spec, RevokedIsNotSent
=============================================================================
