--------------------------- MODULE BlewareProofs ---------------------------
(***************************************************************************)
(* Proofs about the Bluetooth coprocessor, for every value of the          *)
(* constants of MCBleware: one phone at a time has a session and a         *)
(* coprocessor without one can be found; a deleted key stays out and a     *)
(* batch of keys that was let in finds its slots; an image that is         *)
(* accepted, or marked for the boot loader, is whole; every variable       *)
(* keeps its type, and nothing from the serial line is taken twice.        *)
(***************************************************************************)
EXTENDS MCBleware, Integers, Sequences, FiniteSets, FiniteSetTheorems, WellFoundedInduction, TLAPS

\* The least of some natural numbers.
LEMMA LeastNatural ==
  ASSUME NEW A, A \subseteq Nat, A # {} PROVE \E k \in A : \A j \in A : k <= j
<1> DEFINE Ranges == {1..k : k \in A}
<1>1. Ranges \subseteq FiniteSubsetsOf(Nat)
  <2>1. ASSUME NEW k \in A PROVE 1..k \in FiniteSubsetsOf(Nat)
    <3>1. IsFiniteSet(1..k)
      BY FS_Interval
    <3>2. QED
      BY <3>1 DEF FiniteSubsetsOf
  <2>2. QED
    BY <2>1
<1>2. Ranges # {}
  OBVIOUS
<1> HIDE DEF Ranges
<1>3. PICK R \in Ranges : \A T \in Ranges : <<T, R>> \notin StrictSubsetOrdering(Nat)
  BY <1>1, <1>2, FS_StrictSubsetOrderingWellFounded, WFMin, Zenon
<1>4. PICK k \in A : R = 1..k
  BY DEF Ranges
<1>5. ASSUME NEW j \in A PROVE k <= j
  <2>1. 1..j \in Ranges
    BY DEF Ranges
  <2>2. SUFFICES ASSUME j < k PROVE FALSE
    OBVIOUS
  <2>3. 1..j \subseteq 1..k /\ k \in 1..k /\ k \notin 1..j
    BY <2>2
  <2>4. <<1..j, 1..k>> \in StrictSubsetOrdering(Nat)
    BY <2>3 DEF StrictSubsetOrdering
  <2>5. QED
    BY <1>3, <1>4, <2>1, <2>4
<1>6. QED
  BY <1>5

-----------------------------------------------------------------------------
(* The connections and their sessions                                       *)

\* A coprocessor that could be found and is not has the news in its queue
\* that will make it look again: a connection that was made or closed.
IsSeq(s) == \E T : s \in Seq(T)
News(s) == \E i \in DOMAIN s : s[i].ev \in {"connected", "closed"}
Hidden == sm = 1 /\ ~off /\ S!Authenticated = {} /\ Cardinality(S!Active) < NConns /\ ~adv

Entries == [st : {"free", "up", "gone"}, key : BOOLEAN, proven : BOOLEAN,
            age : Nat, mine : SessionKeys \cup {NoRecord}]

SessionsInv ==
    /\ conn \in [S!Conns -> Entries]
    /\ IsSeq(q) /\ sm \in {0, 1} /\ adv \in BOOLEAN
    /\ \A c, d \in S!Authenticated : c = d
    /\ Hidden => News(q)

LEMMA SameCount == ASSUME NEW A PROVE S!Cardinality(A) = Cardinality(A)
  BY Zenon DEF S!Cardinality, Cardinality

\* News is not lost by what is added behind it, and what is added is news.
LEMMA NewsBehind ==
  ASSUME NEW s, IsSeq(s), NEW m
  PROVE  /\ IsSeq(Append(s, m))
         /\ News(s) => News(Append(s, m))
         /\ m.ev \in {"connected", "closed"} => News(Append(s, m))
<1>1. PICK T : s \in Seq(T)
  BY Zenon DEF IsSeq
<1> DEFINE V == T \cup {m}
<1>2. s \in Seq(V) /\ m \in V
  BY <1>1
<1> HIDE DEF V
<1>3. /\ Append(s, m) \in Seq(V) /\ DOMAIN s = 1..Len(s) /\ Len(s) \in Nat
      /\ DOMAIN Append(s, m) = 1..Len(s) + 1
      /\ Append(s, m)[Len(s) + 1] = m
      /\ \A i \in DOMAIN s : Append(s, m)[i] = s[i]
  BY <1>2
<1>4. IsSeq(Append(s, m))
  BY <1>3, Zenon DEF IsSeq
<1>5. DOMAIN s \subseteq DOMAIN Append(s, m) /\ Len(s) + 1 \in DOMAIN Append(s, m)
  BY <1>3
<1> QED
  BY <1>3, <1>4, <1>5, Zenon DEF News

LEMMA NewsInFront ==
  ASSUME NEW s, IsSeq(s), NEW t, IsSeq(t)
  PROVE  IsSeq(s \o t) /\ (News(s) => News(s \o t))
<1>1. PICK T : s \in Seq(T)
  BY Zenon DEF IsSeq
<1>2. PICK U : t \in Seq(U)
  BY Zenon DEF IsSeq
<1> DEFINE V == T \cup U
<1>3. s \in Seq(V) /\ t \in Seq(V)
  BY <1>1, <1>2
<1> HIDE DEF V
<1>4. /\ s \o t \in Seq(V) /\ DOMAIN s = 1..Len(s) /\ Len(s) \in Nat
      /\ DOMAIN (s \o t) = 1..Len(s) + Len(t) /\ Len(t) \in Nat
      /\ \A i \in DOMAIN s : (s \o t)[i] = s[i]
  BY <1>3
<1>5. IsSeq(s \o t)
  BY <1>4, Zenon DEF IsSeq
<1>6. DOMAIN s \subseteq DOMAIN (s \o t)
  BY <1>4
<1> QED
  BY <1>4, <1>5, <1>6, Zenon DEF News

\* What is left when the first message is taken.
LEMMA NewsBefore ==
  ASSUME NEW s, IsSeq(s), s # <<>>
  PROVE  IsSeq(Tail(s)) /\ (News(s) => News(Tail(s)) \/ Head(s).ev \in {"connected", "closed"})
<1>1. PICK T : s \in Seq(T)
  BY Zenon DEF IsSeq
<1>2. /\ Tail(s) \in Seq(T) /\ DOMAIN s = 1..Len(s) /\ Len(s) \in Nat
      /\ DOMAIN Tail(s) = 1..Len(s) - 1 /\ Head(s) = s[1]
      /\ \A i \in 1..Len(s) - 1 : Tail(s)[i] = s[i + 1]
  BY <1>1
<1>3. IsSeq(Tail(s))
  BY <1>2, Zenon DEF IsSeq
<1>4. ASSUME NEW i \in DOMAIN s, s[i].ev \in {"connected", "closed"}, i # 1
      PROVE  News(Tail(s))
  <2>1. i - 1 \in DOMAIN Tail(s) /\ Tail(s)[i - 1] = s[i]
    BY <1>2, <1>4
  <2>2. QED
    BY <1>4, <2>1, Zenon DEF News
<1> QED
  BY <1>2, <1>3, <1>4, Zenon DEF News

LEMMA SessionsBegin == ASSUME S!SessionsAssumption PROVE S!Init => SessionsInv
<1> SUFFICES ASSUME S!Init PROVE SessionsInv
  OBVIOUS
<1>1. /\ conn = [c \in S!Conns |-> S!Free] /\ q = <<S!Msg("boot", 0)>>
      /\ sm = 0 /\ adv = FALSE
  BY DEF S!Init
<1>2. S!Free \in Entries /\ S!Free.key = FALSE
  BY DEF S!Free, Entries
<1>3. conn \in [S!Conns -> Entries] /\ S!Authenticated = {}
  BY <1>1, <1>2 DEF S!Authenticated
<1>4. q \in Seq({S!Msg("boot", 0)})
  BY <1>1
<1>5. IsSeq(q)
  BY <1>4, Zenon DEF IsSeq
<1> QED
  <2>0. sm = 0 /\ adv = FALSE
    BY <1>1, Zenon
  <2>1. sm \in {0, 1} /\ sm # 1
    BY <2>0
  <2>3. adv \in BOOLEAN
    BY <2>0, Zenon
  <2>2. QED
    BY <1>3, <1>5, <2>1, <2>3, Zenon DEF SessionsInv, Hidden

\* A step that makes no session.
LEMMA NoNewSession ==
  ASSUME SessionsInv, conn' \in [S!Conns -> Entries], S!Authenticated' \subseteq S!Authenticated,
         IsSeq(q'), sm' \in {0, 1}, adv' \in BOOLEAN, Hidden' => News(q')
  PROVE  SessionsInv'
  BY DEF SessionsInv

\* A step that leaves the connections, or what counts of them.
LEMMA SameConnections ==
  ASSUME SessionsInv, UNCHANGED <<conn, adv, off, sm>>, IsSeq(q'), News(q) => News(q')
  PROVE  SessionsInv'
<1>1. S!Authenticated' = S!Authenticated /\ S!Active' = S!Active
  BY Zenon DEF S!Authenticated, S!Active
<1>2. Hidden' => Hidden
  BY <1>1, Zenon DEF Hidden
<1>3. QED
  BY <1>1, <1>2, Zenon DEF SessionsInv

LEMMA SameEntries ==
  ASSUME SessionsInv, conn' \in [S!Conns -> Entries],
         \A c \in S!Conns : conn'[c].key = conn[c].key /\ (conn'[c].st = "free" <=> conn[c].st = "free"),
         UNCHANGED <<adv, off, sm>>, IsSeq(q'), News(q) => News(q')
  PROVE  SessionsInv'
<1>1. S!Authenticated' = S!Authenticated /\ S!Active' = S!Active
  BY DEF S!Authenticated, S!Active
<1>2. Hidden' => Hidden
  BY <1>1, Zenon DEF Hidden
<1>3. QED
  BY <1>1, <1>2, Zenon DEF SessionsInv

\* An entry is given back and the news of it is queued.
LEMMA EntryFreed ==
  ASSUME SessionsInv, NEW c \in S!Conns, conn' = [conn EXCEPT ![c] = S!Free],
         UNCHANGED <<adv, off, sm>>, IsSeq(q'), News(q')
  PROVE  SessionsInv'
<1>1. S!Free \in Entries /\ S!Free.key = FALSE
  BY DEF S!Free, Entries
<1>2. conn' \in [S!Conns -> Entries] /\ \A d \in S!Conns : conn'[d] = IF d = c THEN S!Free ELSE conn[d]
  BY <1>1 DEF SessionsInv
<1>3. S!Authenticated' \subseteq S!Authenticated
  BY <1>1, <1>2 DEF S!Authenticated
<1>4. QED
  BY <1>2, <1>3, NoNewSession, Zenon DEF SessionsInv

\* The handlers that put the advertisement on, or take it off, decide from
\* the table as it is.
LEMMA AdvertisementDecided ==
  ASSUME SessionsInv, NEW p \in BOOLEAN, S!Apply1If(p), IsSeq(q'), UNCHANGED <<conn, sm>>,
         ~p => S!Authenticated # {} \/ ~(Cardinality(S!Active) < NConns)
  PROVE  SessionsInv'
<1>1. S!Authenticated' = S!Authenticated /\ S!Active' = S!Active
  BY Zenon DEF S!Authenticated, S!Active
<1>2. ~Hidden' /\ adv' \in BOOLEAN
  <2>1. CASE p
    BY <2>1, Zenon DEF S!Apply1If, S!Apply1, Hidden
  <2>2. CASE ~p
    BY <1>1, <2>2, Zenon DEF S!Apply1If, Hidden, SessionsInv
  <2>3. QED
    BY <2>1, <2>2
<1>3. QED
  BY <1>1, <1>2, NoNewSession, Zenon DEF SessionsInv

\* A handshake makes the one session there is.
LEMMA HandshakeKept ==
  ASSUME SessionsInv, NEW m, NEW rest, S!Handshake(m, rest), UNCHANGED sm, IsSeq(rest), News(q) => News(rest)
  PROVE  SessionsInv'
<1> DEFINE k == conn[m.c].mine
           good == m.w = "auth"
<1>1. CASE S!LinkError(m.c) /\ q' = rest
  <2>1. UNCHANGED <<conn, adv, off, sm>>
    BY <1>1, Zenon DEF S!LinkError
  <2>2. QED
    BY <1>1, <2>1, SameConnections, Zenon
<1>2. CASE S!Admitted(m.c) /\ m.c \in S!Active /\ conn' = S!KeySet(m.c, good) /\
           q' = Append(rest, S!Msg(IF good THEN "authed" ELSE "disconnect", m.c)) /\ UNCHANGED <<adv, off, closing>>
  <2> DEFINE c == m.c
  <2>1. c \in S!Conns
    BY <1>2, Zenon DEF S!Active
  <2>2. good \in BOOLEAN
    OBVIOUS
  <2> HIDE DEF c, good
  <2>3. conn' = [conn EXCEPT ![c].key = TRUE, ![c].proven = @ \/ good]
    BY <1>2, Zenon DEF S!KeySet, c
  <2>4. conn' \in [S!Conns -> Entries] /\ conn'[c].key /\ \A d \in S!Conns : d # c => conn'[d] = conn[d]
    BY <2>1, <2>2, <2>3 DEF SessionsInv, Entries
  <2>5. S!Authenticated' \subseteq S!Authenticated \cup {c} /\ c \in S!Authenticated'
    BY <2>1, <2>4, Zenon DEF S!Authenticated
  <2>6. S!Authenticated = {} \/ c \in S!Authenticated
    BY <1>2, <2>1, Zenon DEF S!Admitted, S!AlreadyAuthed, S!Authenticated, c
  <2>7. \A d, e \in S!Authenticated' : d = e
    BY <2>5, <2>6, Zenon DEF SessionsInv
  <2>8. ~Hidden'
    BY <2>5, Zenon DEF Hidden
  <2>9. IsSeq(q')
    BY <1>2, NewsBehind, Zenon
  <2>10. QED
    BY <1>2, <2>4, <2>7, <2>8, <2>9, Zenon DEF SessionsInv
<1>3. QED
  BY <1>1, <1>2, Zenon DEF S!Handshake

\* The messages with which the supervision asks for disconnections.
LEMMA AskedIsSequence == ASSUME S!SessionsAssumption PROVE IsSeq(S!Asked)
<1>1. S!Conns = 0..NConns - 1 /\ NConns \in Nat
  BY DEF S!Conns, S!SessionsAssumption
<1>2. IsFiniteSet(S!Conns) /\ S!Overdue \subseteq S!Conns
  BY <1>1, FS_Interval DEF S!Overdue
<1>3. Cardinality(S!Overdue) \in Nat
  BY <1>2, FS_Subset, FS_CardinalityType
<1> DEFINE n == Cardinality(S!Overdue)
           m(i) == S!Msg("disconnect", S!Nth(i))
           V == {m(i) : i \in 1..n}
<1> HIDE DEF n, m
<1>4. [i \in 1..n |-> m(i)] \in [1..n -> V]
  OBVIOUS
<1> HIDE DEF V
<1>5. [i \in 1..n |-> m(i)] \in Seq(V)
  BY <1>3, <1>4 DEF n
<1>6. S!Asked \in Seq(V)
  BY <1>5, SameCount, Zenon DEF S!Asked, n, m
<1>7. QED
  BY <1>6, Zenon DEF IsSeq

\* The supervision asks for disconnections and gives back at most one entry.
LEMMA SuperviseKept ==
  ASSUME S!SessionsAssumption, SessionsInv, NEW rest, S!Supervise(rest), UNCHANGED sm, IsSeq(rest), News(q) => News(rest)
  PROVE  SessionsInv'
<1>1. IsSeq(S!Asked)
  BY AskedIsSequence
<1>2. IsSeq(<<>>)
  <2>1. <<>> \in Seq({})
    OBVIOUS
  <2>2. QED
    BY <2>1, Zenon DEF IsSeq
<1>3. PICK lost \in BOOLEAN :
        LET sent == IF lost THEN <<>> ELSE S!Asked IN
        IF S!Gone = {} THEN q' = rest \o sent /\ UNCHANGED conn
        ELSE LET g == CHOOSE c \in S!Gone : \A d \in S!Gone : c <= d
             IN conn' = [conn EXCEPT ![g] = S!Free] /\ q' = rest \o sent \o <<S!Msg("closed", g)>>
  BY DEF S!Supervise
<1> DEFINE sent == IF lost THEN <<>> ELSE S!Asked
           g == CHOOSE c \in S!Gone : \A d \in S!Gone : c <= d
<1>4. IsSeq(sent)
  BY <1>1, <1>2, Zenon
<1>5. UNCHANGED <<adv, off, sm>>
  BY Zenon DEF S!Supervise
<1>6. IsSeq(rest \o sent) /\ (News(q) => News(rest \o sent))
  <2> HIDE DEF sent
  <2>1. QED
    BY <1>4, NewsInFront, Zenon
<1>7. CASE S!Gone = {}
  <2>1. q' = rest \o sent /\ UNCHANGED conn
    BY <1>3, <1>7, Zenon
  <2> HIDE DEF sent
  <2>2. QED
    BY <1>5, <1>6, <2>1, SameConnections, Zenon
<1>8. CASE S!Gone # {}
  <2>1. conn' = [conn EXCEPT ![g] = S!Free] /\ q' = rest \o sent \o <<S!Msg("closed", g)>>
    BY <1>3, <1>8, Zenon
  <2>2. g \in S!Conns
    <3>1. S!Gone \subseteq Nat
      BY DEF S!Gone, S!Conns
    <3>2. g \in S!Gone
      BY <1>8, <3>1, LeastNatural, Zenon
    <3>3. QED
      BY <3>2, Zenon DEF S!Gone
  <2> HIDE DEF sent, g
  <2>3. IsSeq(<<S!Msg("closed", g)>>) /\ S!Msg("closed", g).ev = "closed"
    <3>1. <<S!Msg("closed", g)>> \in Seq({S!Msg("closed", g)})
      OBVIOUS
    <3>2. QED
      BY <3>1, Zenon DEF IsSeq, S!Msg
  <2>4. IsSeq(q') /\ News(q')
    <3> DEFINE f == rest \o sent
               m == S!Msg("closed", g)
    <3>1. IsSeq(f) /\ IsSeq(<<m>>) /\ m.ev = "closed"
      BY <1>6, <2>3, Zenon
    <3> HIDE DEF f, m
    <3>2. IsSeq(f \o <<m>>)
      BY <3>1, NewsInFront, Zenon
    <3>3. PICK T : f \in Seq(T)
      BY <3>1, Zenon DEF IsSeq
    <3>4. /\ Len(f) + 1 \in DOMAIN (f \o <<m>>) /\ (f \o <<m>>)[Len(f) + 1] = m
      <4> DEFINE V == T \cup {m}
      <4>1. f \in Seq(V) /\ <<m>> \in Seq(V)
        BY <3>3
      <4> HIDE DEF V
      <4>2. Len(<<m>>) = 1 /\ <<m>>[1] = m
        OBVIOUS
      <4>3. QED
        BY <4>1, <4>2
    <3>5. News(f \o <<m>>)
      BY <3>1, <3>4, Zenon DEF News
    <3>6. QED
      BY <2>1, <3>2, <3>5, Zenon DEF f, m
  <2>5. QED
    BY <1>5, <2>1, <2>2, <2>4, EntryFreed, Zenon
<1>9. QED
  BY <1>7, <1>8

\* Every message that is handled.
LEMMA HandledKept ==
  ASSUME S!SessionsAssumption, SessionsInv, NEW m, NEW rest, S!Handled(m, rest), m = Head(q), rest = Tail(q),
         q # <<>>, sm' = 1, sm = 1 \/ m.ev = "boot"
  PROVE  SessionsInv'
<1>1. IsSeq(rest) /\ (News(q) => News(rest) \/ m.ev \in {"connected", "closed"})
  BY NewsBefore, Zenon DEF SessionsInv
<1>2. CASE m.ev = "boot"
  <2>1. S!Boot(rest)
    BY <1>2, Zenon DEF S!Handled
  <2>2. /\ q' = rest /\ adv' = TRUE /\ UNCHANGED <<conn, off>>
    BY <2>1, Zenon DEF S!Boot
  <2>3. S!Authenticated' = S!Authenticated /\ ~Hidden'
    BY <2>2, Zenon DEF S!Authenticated, Hidden
  <2>4. sm' \in {0, 1} /\ adv' \in BOOLEAN
    BY <2>2, Zenon
  <2>5. QED
    BY <1>1, <2>2, <2>3, <2>4, Zenon DEF SessionsInv
<1>3. CASE m.ev # "boot"
  <2>0. UNCHANGED sm
    BY <1>3
  <2>1. CASE m.ev = "connected"
    <3>1. S!Connected(rest)
      BY <2>1, Zenon DEF S!Handled
    <3> DEFINE p == Cardinality(S!Active) < NConns /\ S!Authenticated = {}
    <3>2. S!Apply1If(p) /\ q' = rest /\ UNCHANGED conn
      BY <3>1, SameCount, Zenon DEF S!Connected
    <3>3. p \in BOOLEAN /\ (~p => S!Authenticated # {} \/ ~(Cardinality(S!Active) < NConns))
      OBVIOUS
    <3> HIDE DEF p
    <3>4. QED
      BY <1>1, <2>0, <3>2, <3>3, AdvertisementDecided, Zenon
  <2>2. CASE m.ev \in {"closed", "left"}
    <3> DEFINE p == S!Authenticated = {}
    <3>1. S!Apply1If(p) /\ q' = rest /\ UNCHANGED conn
      BY <2>2, Zenon DEF S!Handled, S!Disconnected, S!Left
    <3>2. p \in BOOLEAN /\ (~p => S!Authenticated # {} \/ ~(Cardinality(S!Active) < NConns))
      OBVIOUS
    <3> HIDE DEF p
    <3>3. QED
      BY <1>1, <2>0, <3>1, <3>2, AdvertisementDecided, Zenon
  <2> DEFINE Other == ~(m.ev \in {"connected", "closed"})
  <2>3. Other => (News(q) => News(rest))
    BY <1>1
  <2>4. CASE m.ev = "write"
    <3>1. S!Write(m, rest)
      BY <2>4, Zenon DEF S!Handled
    <3>2. CASE m.w \in {"auth", "guess"}
      <4>1. S!Handshake(m, rest)
        BY <3>1, <3>2, Zenon DEF S!Write
      <4>2. QED
        BY <1>1, <2>0, <2>3, <2>4, <4>1, HandshakeKept, Zenon
    <3>3. CASE m.w = "cmd"
      <4>1. S!Command(m, rest)
        BY <3>1, <3>3, Zenon DEF S!Write
      <4>2. UNCHANGED <<conn, adv, off, sm>> /\ (q' = rest \/ q' = Append(rest, S!Msg("disconnect", m.c)))
        BY <2>0, <4>1, Zenon DEF S!Command, S!LinkError
      <4>3. QED
        BY <1>1, <2>3, <2>4, <4>2, NewsBehind, SameConnections, Zenon
    <3>4. CASE m.w \notin {"auth", "guess", "cmd"}
      <4>1. S!Office(m, rest)
        BY <3>1, <3>4, Zenon DEF S!Write
      <4>2. conn' = S!Touched(m.c) /\ q' = rest /\ UNCHANGED <<adv, off, sm>>
        BY <2>0, <4>1, Zenon DEF S!Office
      <4> DEFINE c == m.c
      <4>3. conn' = IF c \in S!Active THEN [conn EXCEPT ![c].age = 0] ELSE conn
        BY <4>2, Zenon DEF S!Touched
      <4> HIDE DEF c
      <4>4. /\ conn' \in [S!Conns -> Entries]
            /\ \A d \in S!Conns : conn'[d].key = conn[d].key /\ conn'[d].st = conn[d].st
        BY <4>3 DEF SessionsInv, Entries, S!Active
      <4>5. QED
        BY <1>1, <2>3, <2>4, <4>2, <4>4, SameEntries, Zenon
    <3>5. QED
      BY <3>2, <3>3, <3>4, Zenon
  <2>5. CASE m.ev = "authed"
    <3>1. S!Authed(rest)
      BY <2>5, Zenon DEF S!Handled
    <3>2. adv' = (adv /\ S!Authenticated = {}) /\ q' = rest /\ UNCHANGED <<conn, off>>
      BY <3>1, Zenon DEF S!Authed
    <3>3. S!Authenticated' = S!Authenticated /\ S!Active' = S!Active
      BY <3>2, Zenon DEF S!Authenticated, S!Active
    <3>4. Hidden' => Hidden
      BY <2>0, <3>2, <3>3, Zenon DEF Hidden
    <3>5. adv' \in BOOLEAN
      BY <3>2, Zenon
    <3>6. QED
      BY <1>1, <2>0, <2>3, <2>5, <3>2, <3>3, <3>4, <3>5, Zenon DEF SessionsInv
  <2>6. CASE m.ev = "tick"
    <3>1. S!Supervise(rest)
      BY <2>6, Zenon DEF S!Handled
    <3>2. QED
      BY <1>1, <2>0, <2>3, <2>6, <3>1, SuperviseKept, Zenon
  <2>7. CASE m.ev = "order"
    <3>1. S!Ordered(m, rest)
      BY <2>7, Zenon DEF S!Handled
    <3>2. q' = rest /\ UNCHANGED conn
      BY <3>1, Zenon DEF S!Ordered
    <3>3. S!Authenticated' = S!Authenticated
      BY <3>2, Zenon DEF S!Authenticated
    <3>4. CASE m.w \in {"adv1on", "adv1off"}
      <4>1. ~Hidden' /\ adv' \in BOOLEAN
        BY <3>1, <3>4, Zenon DEF S!Ordered, S!Apply1, S!Disable1, Hidden
      <4>2. QED
        BY <1>1, <2>0, <3>2, <3>3, <4>1, Zenon DEF SessionsInv
    <3>5. CASE m.w \notin {"adv1on", "adv1off"}
      <4>1. UNCHANGED <<adv, off>>
        BY <3>1, <3>5, Zenon DEF S!Ordered
      <4>2. QED
        BY <1>1, <2>0, <2>3, <2>7, <3>2, <4>1, SameConnections, Zenon
    <3>6. QED
      BY <3>4, <3>5, Zenon
  <2>8. CASE m.ev \notin {"boot", "connected", "closed", "write", "authed", "left", "tick", "order"}
    <3>1. S!Disconnect(m, rest)
      BY <2>8, Zenon DEF S!Handled
    <3>2. q' = rest /\ UNCHANGED <<conn, adv, off>>
      BY <3>1, Zenon DEF S!Disconnect
    <3>3. QED
      BY <1>1, <2>0, <2>3, <2>8, <3>2, SameConnections, Zenon
  <2>9. QED
    BY <1>3, <2>1, <2>2, <2>4, <2>5, <2>6, <2>7, <2>8, Zenon
<1>4. QED
  BY <1>2, <1>3, Zenon

LEMMA SessionsKept ==
  ASSUME S!SessionsAssumption, SessionsInv, [S!Next]_(S!vars) PROVE SessionsInv'
<1>1. IsSeq(q) /\ conn \in [S!Conns -> Entries]
  BY Zenon DEF SessionsInv
<1>2. S!Free \in Entries /\ S!Free.key = FALSE
  BY DEF S!Free, Entries
<1>3. CASE S!Dispatch
  <2>1. CASE sm = 0 /\ Head(q).ev # "boot"
    <3>1. q # <<>> /\ q' = Tail(q) /\ UNCHANGED <<conn, sm, adv, off>>
      BY <1>3, <2>1, Zenon DEF S!Dispatch, S!Quiet
    <3>2. sm' # 1
      BY <2>1, <3>1
    <3>3. ~Hidden' /\ S!Authenticated' = S!Authenticated
      BY <3>1, <3>2, Zenon DEF Hidden, S!Authenticated
    <3>4. QED
      BY <1>1, <3>1, <3>3, NewsBefore, Zenon DEF SessionsInv
  <2>2. CASE ~(sm = 0 /\ Head(q).ev # "boot")
    <3>1. q # <<>> /\ S!Handled(Head(q), Tail(q)) /\ sm' = 1
      BY <1>3, <2>2, Zenon DEF S!Dispatch
    <3>2. sm = 1 \/ Head(q).ev = "boot"
      BY <2>2, Zenon DEF SessionsInv
    <3>3. QED
      BY <3>1, <3>2, HandledKept, Zenon
  <2>3. QED
    BY <2>1, <2>2, Zenon
<1>4. ASSUME S!Abort PROVE SessionsInv'
  <2>1. /\ conn' = [c \in S!Conns |-> S!Free] /\ q' = <<S!Msg("boot", 0)>>
        /\ sm' = 0 /\ adv' = FALSE
    BY <1>4, Zenon DEF S!Abort
  <2>2. conn' \in [S!Conns -> Entries] /\ S!Authenticated' = {}
    BY <1>2, <2>1 DEF S!Authenticated
  <2>3. q' \in Seq({S!Msg("boot", 0)})
    BY <2>1
  <2>4. IsSeq(q')
    BY <2>3, Zenon DEF IsSeq
  <2>5. sm' \in {0, 1} /\ sm' # 1
    BY <2>1
  <2>6. QED
    BY <2>1, <2>2, <2>4, <2>5, Zenon DEF SessionsInv, Hidden
<1>5. CASE S!DispatchAbort \/ S!NoMemory
  BY <1>4, <1>5, Zenon DEF S!DispatchAbort, S!NoMemory
<1>6. ASSUME NEW c \in S!Conns, NEW k \in SessionKeys \cup {NoRecord}, S!Connect(c, k) PROVE SessionsInv'
  <2>1. /\ conn' = [conn EXCEPT ![c] = [S!Free EXCEPT !.st = "up", !.mine = k]] /\ adv' = FALSE
        /\ q' = Append(q, S!Msg("connected", c)) /\ UNCHANGED <<sm, off>>
    BY <1>6, Zenon DEF S!Connect
  <2> DEFINE f == [S!Free EXCEPT !.st = "up", !.mine = k]
  <2>2. f \in Entries /\ f.key = FALSE
    BY DEF S!Free, Entries
  <2> HIDE DEF f
  <2>3. conn' \in [S!Conns -> Entries] /\ \A d \in S!Conns : conn'[d] = IF d = c THEN f ELSE conn[d]
    BY <1>1, <2>1, <2>2 DEF f
  <2>4. S!Authenticated' \subseteq S!Authenticated
    BY <2>2, <2>3 DEF S!Authenticated
  <2>5. IsSeq(q') /\ News(q')
    <3>1. S!Msg("connected", c).ev = "connected"
      BY DEF S!Msg
    <3>2. QED
      BY <1>1, <2>1, <3>1, NewsBehind, Zenon
  <2>6. QED
    BY <2>1, <2>3, <2>4, <2>5, NoNewSession, Zenon DEF SessionsInv
<1>7. ASSUME NEW c, NEW w, S!PhoneWrites(c, w) PROVE SessionsInv'
  BY <1>1, <1>7, NewsBehind, SameConnections, Zenon DEF S!PhoneWrites
<1>8. ASSUME NEW w, S!Order(w) PROVE SessionsInv'
  BY <1>1, <1>8, NewsBehind, SameConnections, Zenon DEF S!Order
<1>9. ASSUME NEW c \in S!Conns, conn' = [conn EXCEPT ![c] = S!Free], UNCHANGED <<sm, adv, off>>,
             q' = Append(q, S!Msg("closed", c))
      PROVE  SessionsInv'
  <2>1. S!Msg("closed", c).ev = "closed"
    BY DEF S!Msg
  <2>2. QED
    BY <1>1, <1>9, <2>1, NewsBehind, EntryFreed, Zenon
<1>10. ASSUME NEW c \in S!Conns, S!Closed(c) PROVE SessionsInv'
  BY <1>9, <1>10, Zenon DEF S!Closed
<1>11. ASSUME NEW c \in S!Conns, S!Vanish(c) PROVE SessionsInv'
  <2>1. CASE conn' = [conn EXCEPT ![c] = S!Free] /\ q' = Append(q, S!Msg("closed", c))
    BY <1>9, <1>11, <2>1, Zenon DEF S!Vanish
  <2>2. CASE conn' = [conn EXCEPT ![c].st = "gone"] /\ UNCHANGED q
    <3>1. conn[c].st = "up" /\ UNCHANGED <<sm, adv, off>>
      BY <1>11, Zenon DEF S!Vanish
    <3>2. /\ conn' \in [S!Conns -> Entries]
          /\ \A d \in S!Conns : conn'[d].key = conn[d].key /\ (conn'[d].st = "free" <=> conn[d].st = "free")
      BY <1>1, <2>2, <3>1 DEF Entries
    <3>3. QED
      BY <1>1, <2>2, <3>1, <3>2, SameEntries, Zenon
  <2>3. QED
    BY <1>11, <2>1, <2>2, Zenon DEF S!Vanish
<1>12. CASE S!Clock
  <2>1. /\ conn' = [c \in S!Conns |-> IF conn[c].st = "free" THEN conn[c]
                     ELSE [conn[c] EXCEPT !.age = IF @ > Patience THEN @ ELSE @ + 1]]
        /\ q' = Append(q, S!Msg("tick", 0)) /\ UNCHANGED <<sm, adv, off>>
    BY <1>12, Zenon DEF S!Clock
  <2>2. /\ conn' \in [S!Conns -> Entries]
        /\ \A d \in S!Conns : conn'[d].key = conn[d].key /\ (conn'[d].st = "free" <=> conn[d].st = "free")
    <3>1. ASSUME NEW d \in S!Conns
          PROVE  conn'[d] \in Entries /\ conn'[d].key = conn[d].key /\ conn'[d].st = conn[d].st
      <4> DEFINE e == conn[d]
      <4>1. e \in Entries
        BY <1>1
      <4>2. conn'[d] = IF e.st = "free" THEN e ELSE [e EXCEPT !.age = IF @ > Patience THEN @ ELSE @ + 1]
        BY <2>1, Zenon
      <4> HIDE DEF e
      <4>3. CASE e.st = "free"
        BY <4>1, <4>2, <4>3, Zenon DEF e
      <4>4. CASE e.st # "free"
        <5> DEFINE a == IF e.age > Patience THEN e.age ELSE e.age + 1
        <5>1. e.age \in Nat
          BY <4>1 DEF Entries
        <5>2. a \in Nat
          BY <5>1
        <5>3. conn'[d] = [e EXCEPT !.age = a]
          BY <4>2, <4>4, Zenon
        <5> HIDE DEF a
        <5>4. conn'[d] \in Entries /\ conn'[d].key = e.key /\ conn'[d].st = e.st
          BY <4>1, <5>2, <5>3 DEF Entries
        <5>5. QED
          BY <5>4 DEF e
      <4>5. QED
        BY <4>3, <4>4
    <3>2. conn' = [d \in S!Conns |-> conn'[d]]
      BY <2>1
    <3>3. QED
      BY <3>1, <3>2, Zenon
  <2>3. QED
    BY <1>1, <2>1, <2>2, NewsBehind, SameEntries, Zenon
<1>13. CASE UNCHANGED S!vars
  BY <1>1, <1>13, SameConnections, Zenon DEF S!vars
<1>14. QED
  BY <1>3, <1>5, <1>6, <1>7, <1>8, <1>10, <1>11, <1>12, <1>13, Zenon DEF S!Next

\* What the invariant says to the outside.
LEMMA SessionsSound ==
  ASSUME S!SessionsAssumption, SessionsInv PROVE S!OneSession /\ S!Reachable
<1>1. S!OneSession
  <2>1. CASE S!Authenticated = {}
    <3>1. Cardinality(S!Authenticated) = 0
      BY <2>1, FS_EmptySet
    <3>2. S!Cardinality(S!Authenticated) = Cardinality(S!Authenticated)
      BY SameCount, Zenon
    <3>3. QED
      BY <3>1, <3>2 DEF S!OneSession
  <2>2. CASE S!Authenticated # {}
    <3>0. PICK c : c \in S!Authenticated
      BY <2>2
    <3>1. S!Authenticated = {c}
      BY <3>0, Zenon DEF SessionsInv
    <3>2. Cardinality(S!Authenticated) = 1
      BY <3>1, FS_Singleton
    <3>3. S!Cardinality(S!Authenticated) = Cardinality(S!Authenticated)
      BY SameCount, Zenon
    <3>4. QED
      BY <3>2, <3>3 DEF S!OneSession
  <2>3. QED
    BY <2>1, <2>2
<1>2. S!Reachable
  <2> SUFFICES ASSUME sm = 1, q = <<>>, S!Authenticated = {}, S!Cardinality(S!Active) < NConns, ~off, ~adv
               PROVE  FALSE
    BY Zenon DEF S!Reachable
  <2>1. Hidden
    BY SameCount, Zenon DEF Hidden
  <2>2. ~News(q)
    <3>1. DOMAIN q = {}
      OBVIOUS
    <3>2. QED
      BY <3>1, Zenon DEF News
  <2>3. QED
    BY <2>1, <2>2, Zenon DEF SessionsInv
<1>3. QED
  BY <1>1, <1>2

-----------------------------------------------------------------------------
(* Files for the external flash                                             *)

\* Multiples of a number.
LEMMA ProductGrows ==
  ASSUME NEW n \in Nat, NEW i \in Int, NEW j \in Int, i <= j PROVE n * i <= n * j
<1>1. PICK d \in Nat : j = i + d
  <2>1. j - i \in Nat /\ j = i + (j - i)
    OBVIOUS
  <2>2. QED
    BY <2>1
<1>2. n * d >= 0
  BY SMTT(20)
<1>3. n * j = n * i + n * d
  BY <1>1, SMTT(20)
<1>4. n * i \in Int /\ n * d \in Int
  OBVIOUS
<1> QED
  BY <1>2, <1>3, <1>4

LEMMA Divided ==
  ASSUME NEW n \in Nat \ {0}, NEW a \in Nat
  PROVE  a = n * (a \div n) + (a % n) /\ a % n \in 0..n - 1 /\ a \div n \in Nat
  BY SMTT(20)

LEMMA MultipleDivides ==
  ASSUME NEW n \in Nat \ {0}, NEW j \in Nat PROVE (n * j) % n = 0
<1> DEFINE a == n * j
           k == a \div n
           r == a % n
<1>1. a \in Nat
  BY SMTT(20)
<1>2. a = n * k + r /\ r \in 0..n - 1 /\ k \in Nat
  BY <1>1, Divided
<1>3. a = n * j
  OBVIOUS
<1> HIDE DEF a, k, r
<1>4. n * k \in Nat /\ n * j \in Nat
  BY <1>2, SMTT(20)
<1>5. ASSUME k + 1 <= j PROVE FALSE
  <2>1. n * (k + 1) <= n * j
    BY <1>2, <1>5, ProductGrows
  <2>2. n * (k + 1) = n * k + n
    BY <1>2, SMTT(20)
  <2>3. QED
    BY <1>2, <1>3, <1>4, <2>1, <2>2
<1>6. ASSUME j + 1 <= k PROVE FALSE
  <2>1. n * (j + 1) <= n * k
    BY <1>2, <1>6, ProductGrows
  <2>2. n * (j + 1) = n * j + n
    BY SMTT(20)
  <2>3. QED
    BY <1>2, <1>3, <1>4, <2>1, <2>2
<1>7. j = k
  BY <1>2, <1>5, <1>6
<1> DEFINE p == n * k
<1>8. a = p + r /\ a = p /\ p \in Nat
  BY <1>2, <1>3, <1>4, <1>7
<1> HIDE DEF p
<1>9. r = 0
  BY <1>2, <1>8
<1> QED
  BY <1>9 DEF a, r

\* The border a sector is erased from: the first one at or after an address.
LEMMA NextBorder ==
  ASSUME O!OadAssumption, NEW a \in Nat
  PROVE  /\ O!ErasedFrom(a) \in Nat /\ a <= O!ErasedFrom(a) /\ O!ErasedFrom(a) < a + Sector
         /\ \E j \in Nat : O!ErasedFrom(a) = Sector * j
         /\ a % Sector = 0 => O!ErasedFrom(a) = a
         /\ a % Sector # 0 => O!ErasedFrom(a) = Sector * (a \div Sector) + Sector
<1> DEFINE k == a \div Sector
           r == a % Sector
<1>0. Sector \in Nat \ {0}
  BY DEF O!OadAssumption
<1>1. a = Sector * k + r /\ r \in 0..Sector - 1 /\ k \in Nat
  BY <1>0, Divided
<1>2. O!ErasedFrom(a) = IF r = 0 THEN a ELSE (k + 1) * Sector
  BY Zenon DEF O!ErasedFrom
<1> HIDE DEF k, r
<1>3. (k + 1) * Sector = Sector * k + Sector /\ Sector * k \in Nat /\ (k + 1) * Sector = Sector * (k + 1)
  BY <1>0, <1>1, SMTT(20)
<1>4. CASE r = 0
  <2>1. O!ErasedFrom(a) = a /\ a = Sector * k
    BY <1>1, <1>2, <1>3, <1>4
  <2>2. QED
    BY <1>0, <1>1, <1>4, <2>1 DEF r
<1>5. CASE r # 0
  <2>1. O!ErasedFrom(a) = Sector * k + Sector /\ O!ErasedFrom(a) = Sector * (k + 1)
    BY <1>2, <1>3, <1>5
  <2>2. k + 1 \in Nat
    BY <1>1
  <2>3. Sector * k + Sector \in Nat /\ a <= Sector * k + Sector /\ Sector * k + Sector < a + Sector
    BY <1>0, <1>1, <1>3, <1>5
  <2>4. QED
    BY <1>5, <2>1, <2>2, <2>3 DEF r, k
<1>6. QED
  BY <1>4, <1>5

\* A payload stays below the border that is erased when it is written, and so
\* does the border that comes after it.
LEMMA BordersFollow ==
  ASSUME O!OadAssumption, NEW a \in Nat, NEW n \in 0..Chunk
  PROVE  LET e == O!ErasedFrom(a) + (IF O!Crosses(a, n) THEN Sector ELSE 0)
         IN  a + n <= e /\ O!ErasedFrom(a + n) <= e
<1> DEFINE b == a + n
           x == O!ErasedFrom(a)
           y == O!ErasedFrom(b)
<1>0. Sector \in Nat \ {0} /\ n \in Nat /\ n < Sector /\ b \in Nat
  BY DEF O!OadAssumption
<1>1. /\ x \in Nat /\ a <= x /\ x < a + Sector
      /\ \E j \in Nat : x = Sector * j
      /\ a % Sector # 0 => x = Sector * (a \div Sector) + Sector
  BY NextBorder
<1>2. /\ y \in Nat /\ b <= y /\ y < b + Sector
      /\ \E j \in Nat : y = Sector * j
      /\ b % Sector = 0 => y = b
      /\ b % Sector # 0 => y = Sector * (b \div Sector) + Sector
  BY <1>0, NextBorder
<1>3. b = a + n
  OBVIOUS
<1>4. CASE O!Crosses(a, n)
  <2>1. PICK i \in Nat : x = Sector * i
    BY <1>1
  <2>2. PICK j \in Nat : y = Sector * j
    BY <1>2
  <2> HIDE DEF b, x, y
  <2>3. Sector * (i + 1) = x + Sector /\ Sector * (i + 2) = x + Sector + Sector
    BY <1>0, <2>1, SMTT(20)
  <2>4. j <= i + 1
    <3>1. SUFFICES ASSUME i + 2 <= j PROVE FALSE
      BY <2>1, <2>2
    <3>2. Sector * (i + 2) <= Sector * j
      BY <1>0, <3>1, ProductGrows
    <3>3. QED
      BY <1>0, <1>1, <1>2, <1>3, <2>2, <2>3, <3>2
  <2>5. Sector * j <= Sector * (i + 1)
    BY <1>0, <2>4, ProductGrows
  <2>6. b <= x + Sector /\ y <= x + Sector
    BY <1>0, <1>1, <1>3, <2>2, <2>3, <2>5
  <2>7. QED
    BY <1>4, <2>6 DEF b, x, y
<1>5. CASE ~O!Crosses(a, n)
  <2>1. b \div Sector = a \div Sector /\ a % Sector # 0
    BY <1>5 DEF O!Crosses
  <2>2. b = Sector * (b \div Sector) + (b % Sector) /\ b % Sector \in 0..Sector - 1 /\ b \div Sector \in Nat
    BY <1>0, Divided
  <2> DEFINE k == b \div Sector
             p == Sector * k
  <2>3. x = p + Sector /\ b = p + (b % Sector) /\ (b % Sector # 0 => y = p + Sector)
    BY <1>1, <1>2, <2>1, <2>2
  <2>4. p \in Nat
    BY <1>0, <2>2, SMTT(20)
  <2> HIDE DEF p, k, x, y, b
  <2>5. b <= x /\ y <= x
    BY <1>0, <1>2, <2>2, <2>3, <2>4
  <2>6. x + 0 = x
    BY <1>1
  <2>7. QED
    BY <1>5, <2>5, <2>6 DEF b, x, y
<1>6. QED
  BY <1>4, <1>5

\* While a transfer runs, what its CRC was taken over lies in the flash below
\* the cursor, and from the cursor to the next border the cells are blank.
Address == O!Base(file.type) + cursor
Running ==
    /\ file.type \in 0..LastType /\ file.size \in Nat /\ file.size <= SlotCells
    /\ cursor \in Nat /\ cursor <= file.size
    /\ IsSeq(got) /\ Len(got) = cursor
    /\ \A i \in 1..cursor : flash[O!Base(file.type) + i - 1] = got[i]
    /\ \A c \in O!Cells : Address <= c /\ c < O!ErasedFrom(Address) => flash[c] = O!Blank

Sent == DOMAIN sending = Phones /\ \A p \in Phones : sending[p].size \in Nat

OadInv ==
    /\ taken \in BOOLEAN /\ (taken <=> owner # "none")
    /\ taken => Running /\ event # "accepted"
    /\ Sent
    /\ O!AcceptedIsWhole

\* The slots of the files follow each other in the flash.
LEMMA SlotsFit ==
  ASSUME O!OadAssumption, NEW t \in 0..LastType
  PROVE  /\ O!Base(t) \in Nat /\ O!Base(t) % Sector = 0
         /\ \A i \in 0..SlotCells - 1 : O!Base(t) + i \in O!Cells
         /\ O!Cells \subseteq Nat
<1>0. /\ SlotCells \in Nat \ {0} /\ LastType \in Nat /\ Sector \in Nat \ {0} /\ SlotCells % Sector = 0
      /\ t \in Nat
  BY DEF O!OadAssumption
<1> DEFINE m == SlotCells \div Sector
<1>1. SlotCells = Sector * m + 0 /\ m \in Nat
  BY <1>0, Divided
<1> HIDE DEF m
<1>2. t * SlotCells = Sector * (t * m) /\ t * m \in Nat
  BY <1>0, <1>1, SMTT(20)
<1>3. (t * SlotCells) % Sector = 0
  <2> DEFINE j == t * m
  <2>1. j \in Nat /\ t * SlotCells = Sector * j
    BY <1>2
  <2> HIDE DEF j
  <2>2. (Sector * j) % Sector = 0
    BY <1>0, <2>1, MultipleDivides
  <2>3. QED
    BY <2>1, <2>2
<1>4. SlotCells * t <= SlotCells * (LastType + 1)
  BY <1>0, ProductGrows
<1>5. /\ t * SlotCells = SlotCells * t /\ SlotCells * t \in Nat
      /\ (LastType + 2) * SlotCells = SlotCells * (LastType + 1) + SlotCells
      /\ SlotCells * (LastType + 1) \in Nat
  BY <1>0, SMTT(20)
<1>6. ASSUME NEW i \in 0..SlotCells - 1 PROVE O!Base(t) + i \in O!Cells
  <2> DEFINE x == SlotCells * t
             y == SlotCells * (LastType + 1)
             z == (LastType + 2) * SlotCells
  <2>0. O!Base(t) = t * SlotCells /\ O!Cells = 0..z - 1
    BY Zenon DEF O!Base, O!Cells
  <2>1. x \in Nat /\ y \in Nat /\ x <= y /\ O!Base(t) = x /\ z = y + SlotCells
    BY <1>4, <1>5, <2>0
  <2> HIDE DEF x, y, z
  <2>2. QED
    BY <1>0, <2>0, <2>1
<1>7. O!Cells \subseteq Nat
  BY DEF O!Cells
<1>8. O!Base(t) \in Nat
  BY <1>5 DEF O!Base
<1>9. QED
  BY <1>3, <1>6, <1>7, <1>8 DEF O!Base

LEMMA OadBegins == ASSUME O!OadAssumption PROVE O!Init => OadInv
<1> SUFFICES ASSUME O!Init PROVE OadInv
  OBVIOUS
<1>1. owner = "none" /\ taken = FALSE /\ event = "none"
  BY Zenon DEF O!Init
<1>2. taken \in BOOLEAN /\ event # "accepted"
  BY <1>1
<1>3. Sent
  <2>1. sending = [p \in Phones |-> O!NoFile] /\ O!NoFile.size = 0
    BY DEF O!Init, O!NoFile
  <2>2. QED
    BY <2>1 DEF Sent
<1>4. QED
  BY <1>1, <1>2, <1>3, Zenon DEF OadInv, O!AcceptedIsWhole

\* A step outside a running transfer that accepts nothing.
LEMMA NothingAccepted ==
  ASSUME event' # "accepted" \/ (event' = event /\ UNCHANGED <<file, cursor, flash>>),
         OadInv, Sent', taken' = FALSE, owner' = "none"
  PROVE  OadInv'
<1>1. taken' \in BOOLEAN /\ ~taken'
  OBVIOUS
<1>2. O!AcceptedIsWhole'
  <2>1. CASE event' # "accepted"
    BY <2>1, Zenon DEF O!AcceptedIsWhole
  <2>2. CASE event' = event /\ UNCHANGED <<file, cursor, flash>>
    BY <2>2, Zenon DEF OadInv, O!AcceptedIsWhole, O!Whole, O!Base
  <2>3. QED
    BY <2>1, <2>2
<1>3. QED
  BY <1>1, <1>2, Zenon DEF OadInv

\* What is appended comes after what there was.
LEMMA Concatenated ==
  ASSUME NEW T, NEW s \in Seq(T), NEW t \in Seq(T)
  PROVE  /\ s \o t \in Seq(T) /\ Len(s \o t) = Len(s) + Len(t)
         /\ \A i \in 1..Len(s) : (s \o t)[i] = s[i]
         /\ \A i \in (Len(s) + 1)..(Len(s) + Len(t)) : (s \o t)[i] = t[i - Len(s)]
  OBVIOUS

\* What a payload writes.
LEMMA PayloadWrites ==
  ASSUME O!OadAssumption, Running, NEW w, IsSeq(w), NEW n \in 0..Chunk, Len(w) = n,
         cursor + n <= file.size,
         flash' = O!Program(O!Erase(flash, Address, n), Address, w),
         got' = got \o w, cursor' = cursor + n, file' = file
  PROVE  Running'
<1> DEFINE a == Address
           b == O!Base(file.type)
           e == O!ErasedFrom(a) + (IF O!Crosses(a, n) THEN Sector ELSE 0)
           mid == O!Erase(flash, a, n)
<1>0. /\ b \in Nat /\ cursor \in Nat /\ n \in Nat /\ file.size \in Nat /\ file.size <= SlotCells
      /\ Sector \in Nat \ {0} /\ a = b + cursor /\ SlotCells \in Nat
      /\ \A i \in 0..SlotCells - 1 : b + i \in O!Cells
  <2>1. file.type \in 0..LastType /\ cursor \in Nat /\ file.size \in Nat /\ file.size <= SlotCells
    BY Zenon DEF Running
  <2>2. b \in Nat /\ \A i \in 0..SlotCells - 1 : b + i \in O!Cells
    BY <2>1, SlotsFit, Zenon
  <2>3. Sector \in Nat \ {0} /\ SlotCells \in Nat /\ n \in Nat
    BY DEF O!OadAssumption
  <2>4. a = b + cursor
    BY DEF Address
  <2>5. QED
    BY <2>1, <2>2, <2>3, <2>4
<1>1. /\ O!ErasedFrom(a) \in Nat /\ a <= O!ErasedFrom(a) /\ a \in Nat
      /\ a + n <= e /\ O!ErasedFrom(a + n) <= e
  <2>1. a \in Nat
    BY <1>0
  <2> HIDE DEF a
  <2>2. QED
    BY <2>1, NextBorder, BordersFollow
<1>2. \A c \in O!Cells : a <= c /\ c < O!ErasedFrom(a) => flash[c] = O!Blank
  BY DEF Running
<1>3. \A c \in O!Cells : c \in Nat
  BY DEF O!Cells
<1> HIDE DEF a, b
<1>4. ASSUME NEW c \in O!Cells
      PROVE  /\ c < a => mid[c] = flash[c]
             /\ a <= c /\ c < e => mid[c] = O!Blank
  <2>1. CASE O!Crosses(a, n)
    <3>1. mid[c] = IF c \in O!ErasedFrom(a)..O!ErasedFrom(a) + Sector - 1 THEN O!Blank ELSE flash[c]
      BY <2>1 DEF O!Erase
    <3>2. e = O!ErasedFrom(a) + Sector
      BY <2>1
    <3> HIDE DEF e, mid
    <3>3. c \in Nat
      BY <1>3
    <3>4. QED
      BY <1>0, <1>1, <1>2, <3>1, <3>2, <3>3
  <2>2. CASE ~O!Crosses(a, n)
    <3>1. mid[c] = flash[c]
      BY <2>2, Zenon DEF O!Erase
    <3>2. e = O!ErasedFrom(a)
      BY <1>1, <2>2
    <3> HIDE DEF e, mid
    <3>3. QED
      BY <1>2, <3>1, <3>2
  <2>3. QED
    BY <2>1, <2>2
<1> DEFINE new == O!Program(mid, a, w)
<1>5. ASSUME NEW c \in O!Cells
      PROVE  /\ c < a => new[c] = flash[c]
             /\ a <= c /\ c < a + n => new[c] = w[c - a + 1]
             /\ a + n <= c /\ c < e => new[c] = O!Blank
  <2>1. new[c] = IF c \notin a..a + n - 1 THEN mid[c] ELSE IF mid[c] = O!Blank THEN w[c - a + 1] ELSE O!Spoilt
    BY Zenon DEF O!Program
  <2> HIDE DEF new, mid
  <2>2. c \in Nat /\ a \in Nat /\ n \in Nat /\ e \in Nat /\ a + n <= e
    BY <1>0, <1>1, <1>3
  <2> HIDE DEF e
  <2>3. QED
    BY <1>4, <2>1, <2>2
<1>6. flash' = new
  BY Zenon DEF a
<1> HIDE DEF new, mid, e
<1>7. PICK T : got \in Seq(T) /\ w \in Seq(T)
  <2>1. PICK U : got \in Seq(U)
    BY Zenon DEF Running, IsSeq
  <2>2. PICK V : w \in Seq(V)
    BY Zenon DEF IsSeq
  <2>3. got \in Seq(U \cup V) /\ w \in Seq(U \cup V)
    BY <2>1, <2>2
  <2>4. QED
    BY <2>3
<1>8. /\ got' \in Seq(T) /\ Len(got) = cursor /\ Len(got') = cursor + n
      /\ \A i \in 1..cursor : got'[i] = got[i]
      /\ \A i \in (cursor + 1)..(cursor + n) : got'[i] = w[i - cursor]
  <2>1. Len(got) = cursor
    BY Zenon DEF Running
  <2>2. QED
    BY <1>7, <2>1, Concatenated, Zenon
<1>9. IsSeq(got')
  BY <1>8, Zenon DEF IsSeq
<1>10. ASSUME NEW i \in 1..cursor + n PROVE flash'[b + i - 1] = got'[i]
  <2>1. b + i - 1 = b + (i - 1) /\ i - 1 \in 0..SlotCells - 1
    BY <1>0
  <2>2. b + i - 1 \in O!Cells
    BY <1>0, <2>1
  <2>3. CASE i <= cursor
    <3>1. b + i - 1 < a /\ i \in 1..cursor
      BY <1>0, <2>3
    <3>2. flash[b + i - 1] = got[i]
      BY <3>1 DEF Running, b
    <3>3. QED
      BY <1>5, <1>6, <1>8, <2>2, <3>1, <3>2
  <2>4. CASE i > cursor
    <3>1. a <= b + i - 1 /\ b + i - 1 < a + n /\ b + i - 1 - a + 1 = i - cursor /\ i \in (cursor + 1)..(cursor + n)
      BY <1>0, <2>4
    <3> DEFINE c == b + i - 1
    <3>0. c = b + i - 1
      OBVIOUS
    <3> HIDE DEF c
    <3>2. c \in O!Cells /\ a <= c /\ c < a + n /\ c - a + 1 = i - cursor
      <4>1. c \in O!Cells
        BY <2>2, <3>0
      <4>2. a \in Nat /\ n \in Nat /\ c \in Nat /\ b \in Nat /\ i \in Nat /\ cursor \in Nat
        BY <1>0, <1>1, <1>3, <4>1
      <4>3. QED
        BY <3>0, <3>1, <4>1, <4>2
    <3>3. flash'[c] = w[i - cursor]
      BY <1>5, <1>6, <3>2
    <3>4. got'[i] = w[i - cursor]
      BY <1>8, <3>1
    <3>5. QED
      BY <3>3, <3>4 DEF c
  <2>5. i <= cursor \/ i > cursor
    BY <1>0
  <2>6. QED
    BY <2>3, <2>4, <2>5, Zenon
<1>11. Address' = a + n
  BY <1>0 DEF Address, b, O!Base
<1>12. ASSUME NEW c \in O!Cells, a + n <= c, c < O!ErasedFrom(a + n) PROVE flash'[c] = O!Blank
  <2>1. c < e
    <3>1. c \in Nat /\ O!ErasedFrom(a + n) \in Nat /\ e \in Nat
      <4>1. a + n \in Nat
        BY <1>0, <1>1
      <4>2. O!ErasedFrom(a + n) \in Nat
        BY <4>1, NextBorder
      <4>3. e \in Nat
        BY <1>0, <1>1 DEF e
      <4>4. QED
        BY <1>3, <4>2, <4>3
    <3>2. QED
      BY <1>1, <1>12, <3>1
  <2>2. QED
    BY <1>5, <1>6, <1>12, <2>1
<1>13. /\ (file.type \in 0..LastType /\ file.size \in Nat /\ file.size <= SlotCells)'
       /\ (cursor \in Nat /\ cursor <= file.size /\ Len(got) = cursor)'
  BY <1>0, <1>8 DEF Running
<1>14. O!Base(file'.type) = b
  BY DEF b
<1>15. QED
  BY <1>9, <1>10, <1>11, <1>12, <1>13, <1>14 DEF Running

\* What a phone puts in a payload, and what is taken of it.
LEMMA PayloadFits ==
  ASSUME O!OadAssumption, Running, NEW f, f.size \in Nat, NEW slip \in {0, 1}, cursor + slip < f.size
  PROVE  LET d == O!Data(f, cursor + slip)
             n == O!Less(Len(d), file.size - cursor)
             w == SubSeq(d, 1, n)
         IN  n \in 0..Chunk /\ cursor + n <= file.size /\ IsSeq(w) /\ Len(w) = n
<1> DEFINE from == cursor + slip
           k == O!Less(Chunk, f.size - from)
           d == O!Data(f, from)
           n == O!Less(Len(d), file.size - cursor)
           w == SubSeq(d, 1, n)
<1>1. cursor \in Nat /\ file.size \in Nat /\ cursor <= file.size /\ from \in Nat /\ from < f.size
  BY DEF Running
<1>2. Chunk \in Nat
  BY DEF O!OadAssumption
<1>3. k \in 0..Chunk
  BY <1>1, <1>2 DEF O!Less
<1>4. d = [i \in 1..k |-> O!Cell(f, from + i - 1)]
  BY Zenon DEF O!Data
<1> HIDE DEF k, d
<1> DEFINE T == {O!Cell(f, from + i - 1) : i \in 1..k}
<1>5. d \in [1..k -> T]
  BY <1>4, Zenon
<1> HIDE DEF T
<1>6. d \in Seq(T) /\ Len(d) = k
  BY <1>3, <1>5
<1>7. n \in 0..k /\ cursor + n <= file.size
  BY <1>1, <1>3, <1>6 DEF O!Less
<1> HIDE DEF n
<1>8. w \in Seq(T) /\ Len(w) = n
  BY <1>3, <1>6, <1>7
<1>9. IsSeq(w)
  BY <1>8, Zenon DEF IsSeq
<1>10. n \in 0..Chunk
  BY <1>2, <1>3, <1>7
<1>11. QED
  BY <1>7, <1>8, <1>9, <1>10, Zenon DEF d, n

LEMMA PayloadKept ==
  ASSUME O!OadAssumption, OadInv, NEW p \in Phones, owner = p, NEW slip \in {0, 1},
         cursor + slip < sending[p].size, O!Payload(p, O!Data(sending[p], cursor + slip)),
         UNCHANGED sending
  PROVE  OadInv'
<1> DEFINE d == O!Data(sending[p], cursor + slip)
           n == O!Less(Len(d), file.size - cursor)
           w == SubSeq(d, 1, n)
<1>1. taken /\ Running /\ event # "accepted" /\ sending[p].size \in Nat
  <2>1. p # "none"
    BY Zenon DEF O!OadAssumption
  <2>2. QED
    BY <2>1, Zenon DEF OadInv, Sent
<1>2. n \in 0..Chunk /\ cursor + n <= file.size /\ IsSeq(w) /\ Len(w) = n
  BY <1>1, PayloadFits
<1>3. /\ flash' = O!Program(O!Erase(flash, Address, n), Address, w)
      /\ got' = got \o w /\ cursor' = cursor + n /\ file' = file
      /\ IF cursor + n < file.size THEN UNCHANGED <<owner, taken, event, ingest>>
         ELSE O!Close /\ event' = O!Verdict(file, got \o w)
  BY Zenon DEF O!Payload, Address
<1> HIDE DEF d, n, w
<1>4. Running'
  BY <1>1, <1>2, <1>3, PayloadWrites, Zenon
<1>5. Sent'
  BY Zenon DEF OadInv, Sent
<1>6. CASE cursor + n < file.size
  <2>1. UNCHANGED <<owner, taken, event>>
    BY <1>3, <1>6
  <2>2. /\ (taken \in BOOLEAN /\ (taken <=> owner # "none"))'
        /\ (taken => Running /\ event # "accepted")'
    BY <1>1, <1>4, <2>1, Zenon DEF OadInv
  <2>3. O!AcceptedIsWhole'
    BY <1>1, <2>1, Zenon DEF O!AcceptedIsWhole
  <2>4. QED
    BY <1>5, <2>2, <2>3, Zenon DEF OadInv
<1>7. CASE ~(cursor + n < file.size)
  <2>1. taken' = FALSE /\ owner' = "none" /\ event' = O!Verdict(file, got')
    BY <1>3, <1>7, Zenon DEF O!Close
  <2>2. cursor' = file'.size
    <3>1. cursor \in Nat /\ file.size \in Nat /\ n \in Nat
      BY <1>1, <1>2 DEF Running
    <3>2. cursor + n <= file.size /\ cursor' = cursor + n /\ file' = file
      BY <1>2, <1>3
    <3>3. QED
      BY <1>7, <3>1, <3>2
  <2>3. ASSUME event' = "accepted" PROVE O!Whole(file)'
    <3>1. got' = O!Expected(file)
      BY <2>1, <2>3, Zenon DEF O!Verdict
    <3>2. ASSUME NEW i \in 0..file.size - 1
          PROVE  flash'[O!Base(file.type) + i] = O!Cell(file, i)
      <4>1. file.size \in Nat
        BY <1>1 DEF Running
      <4>2. i + 1 \in 1..file.size /\ i + 1 - 1 = i
        BY <4>1
      <4>3. O!Base(file.type) \in Nat
        BY <1>1, SlotsFit, Zenon DEF Running
      <4>4. flash'[O!Base(file.type) + (i + 1) - 1] = got'[i + 1]
        BY <1>3, <1>4, <2>2, <4>2 DEF Running, O!Base
      <4>5. got'[i + 1] = O!Cell(file, i)
        BY <3>1, <4>2 DEF O!Expected
      <4>6. O!Base(file.type) + (i + 1) - 1 = O!Base(file.type) + i
        BY <4>3
      <4>7. QED
        BY <4>4, <4>5, <4>6
    <3>3. QED
      BY <1>3, <3>2, Zenon DEF O!Whole, O!Base, O!Cell
  <2>4. O!AcceptedIsWhole'
    BY <2>3, Zenon DEF O!AcceptedIsWhole
  <2>5. taken' \in BOOLEAN /\ ~taken'
    BY <2>1
  <2>6. QED
    BY <1>5, <2>1, <2>4, <2>5, Zenon DEF OadInv
<1>8. QED
  BY <1>6, <1>7

\* A step that leaves the transfer and what it wrote alone.
LEMMA TransferRests ==
  ASSUME OadInv, Sent', UNCHANGED <<owner, taken, file, got, cursor, flash>>,
         event' = event \/ event' # "accepted"
  PROVE  OadInv'
<1>1. (taken \in BOOLEAN /\ (taken <=> owner # "none"))'
  BY Zenon DEF OadInv
<1>2. Running => Running'
  BY Zenon DEF Running, Address, O!Base, O!ErasedFrom, IsSeq
<1>3. (taken => Running /\ event # "accepted")'
  BY <1>2, Zenon DEF OadInv
<1>4. O!AcceptedIsWhole'
  BY Zenon DEF OadInv, O!AcceptedIsWhole, O!Whole, O!Base
<1>5. QED
  BY <1>1, <1>3, <1>4, Zenon DEF OadInv

LEMMA MetadataKept ==
  ASSUME O!OadAssumption, OadInv, NEW p \in Phones, NEW ty \in O!Types, NEW n \in Sizes,
         O!Metadata(p, ty, n)
  PROVE  OadInv'
<1> DEFINE f == [type |-> ty, size |-> n, version |-> O!Version + 1]
<1>0. n \in Nat /\ ty \in Nat /\ f.type = ty /\ f.size = n /\ p # "none"
  BY DEF O!OadAssumption, O!Types
<1> HIDE DEF f
<1>1. CASE taken
  <2>1. UNCHANGED <<owner, taken, file, got, cursor, flash, event, sending>>
    BY <1>1, Zenon DEF O!Metadata
  <2>2. Sent'
    BY <2>1, Zenon DEF OadInv, Sent
  <2>3. QED
    BY <2>1, <2>2, TransferRests
<1>2. CASE ~taken
  <2>1. /\ file' = f /\ got' = <<>> /\ cursor' = 0 /\ sending' = [sending EXCEPT ![p] = f]
        /\ UNCHANGED flash
        /\ IF O!Fits(f) THEN owner' = p /\ taken' = TRUE /\ event' = "started" ELSE O!Close /\ UNCHANGED event
    BY <1>2, Zenon DEF O!Metadata, f
  <2>2. Sent'
    <3>1. DOMAIN sending' = Phones
      BY <2>1 DEF OadInv, Sent
    <3>2. \A r \in Phones : sending'[r] = f \/ sending'[r] = sending[r]
      BY <2>1 DEF OadInv, Sent
    <3>3. QED
      BY <1>0, <3>1, <3>2 DEF OadInv, Sent
  <2>3. CASE O!Fits(f)
    <3>1. f.type \in 0..LastType /\ f.size <= SlotCells
      BY <1>0, <2>3 DEF O!Fits, O!Capacity, O!OadAssumption
    <3>2. IsSeq(got') /\ Len(got') = 0 /\ 0 \in Nat /\ 0 <= f.size
      <4>1. <<>> \in Seq(Nat) /\ Len(<<>>) = 0
        OBVIOUS
      <4>2. QED
        BY <1>0, <2>1, <4>1 DEF IsSeq
    <3>3. Address' = O!Base(f.type) + 0
      BY <2>1, Zenon DEF Address, O!Base
    <3>4. O!Base(f.type) \in Nat /\ O!Base(f.type) % Sector = 0 /\ O!Cells \subseteq Nat
      BY <3>1, SlotsFit
    <3>5. Address' \in Nat /\ O!ErasedFrom(Address') = Address'
      BY <3>3, <3>4 DEF O!ErasedFrom
    <3>6. ASSUME NEW c \in O!Cells, Address' <= c, c < O!ErasedFrom(Address') PROVE flash'[c] = O!Blank
      <4>1. c \in Nat
        BY <3>4
      <4>2. c < Address'
        BY <3>5, <3>6
      <4>3. QED
        BY <3>5, <3>6, <4>1, <4>2
    <3>7. \A i \in 1..cursor' : flash'[O!Base(file'.type) + i - 1] = got'[i]
      BY <2>1
    <3>8. Running'
      BY <1>0, <2>1, <3>1, <3>2, <3>6, <3>7 DEF Running
    <3>9. owner' # "none" /\ taken' = TRUE /\ event' # "accepted"
      BY <1>0, <2>1, <2>3
    <3>10. taken' \in BOOLEAN /\ taken'
      BY <3>9
    <3>11. QED
      BY <2>2, <3>8, <3>9, <3>10, Zenon DEF OadInv, O!AcceptedIsWhole
  <2>4. CASE ~O!Fits(f)
    <3>1. taken' = FALSE /\ owner' = "none" /\ cursor' = 0
      BY <2>1, <2>4, Zenon DEF O!Close
    <3>2. taken' \in BOOLEAN /\ ~taken'
      BY <3>1
    <3>3. ~(cursor' > 0)
      BY <3>1
    <3>4. QED
      BY <2>2, <3>1, <3>2, <3>3, Zenon DEF OadInv, O!AcceptedIsWhole
  <2>5. QED
    BY <2>3, <2>4
<1>3. QED
  BY <1>1, <1>2

LEMMA OadKept == ASSUME O!OadAssumption, OadInv, O!Next PROVE OadInv'
<1>1. ASSUME NEW p \in Phones, NEW ty \in O!Types, NEW n \in Sizes, O!Metadata(p, ty, n)
      PROVE  OadInv'
  BY <1>1, MetadataKept
<1>2. ASSUME NEW p \in Phones, O!Send(p) PROVE OadInv'
  <2>1. PICK slip \in {0} \cup {i \in {1} : acts < PhoneActs /\ cursor + 1 < sending[p].size} :
          IF owner # p THEN UNCHANGED <<owner, taken, file, got, cursor, flash, event>>
          ELSE O!Payload(p, O!Data(sending[p], cursor + slip))
    BY <1>2, Zenon DEF O!Send
  <2>2. UNCHANGED sending /\ cursor < sending[p].size
    BY <1>2, Zenon DEF O!Send
  <2>3. CASE owner # p
    <3>1. UNCHANGED <<owner, taken, file, got, cursor, flash, event>>
      BY <2>1, <2>3
    <3>2. Sent'
      BY <2>2, Zenon DEF OadInv, Sent
    <3>3. QED
      BY <3>1, <3>2, TransferRests
  <2>4. CASE owner = p
    <3>1. taken
      BY <2>4, Zenon DEF OadInv, O!OadAssumption
    <3>2. cursor \in Nat
      BY <3>1, Zenon DEF OadInv, Running
    <3>3. slip \in {0, 1} /\ cursor + slip < sending[p].size
      BY <2>1, <2>2, <3>2
    <3>4. O!Payload(p, O!Data(sending[p], cursor + slip))
      BY <2>1, <2>4
    <3>5. QED
      BY <2>2, <2>4, <3>3, <3>4, PayloadKept
  <2>5. QED
    BY <2>3, <2>4
<1>3. ASSUME NEW p \in Phones, O!OpenFails(p) PROVE OadInv'
  <2>1. event' # "accepted" /\ taken' = FALSE /\ owner' = "none" /\ UNCHANGED sending
    BY <1>3 DEF O!OpenFails, O!Close
  <2>2. Sent'
    BY <2>1, Zenon DEF OadInv, Sent
  <2>3. QED
    BY <2>1, <2>2, NothingAccepted
<1>4. ASSUME NEW p \in Phones, O!LinkEnds(p) PROVE OadInv'
  <2>1. sending' = [sending EXCEPT ![p] = O!NoFile] /\ UNCHANGED <<file, got, cursor, flash>>
    BY <1>4, Zenon DEF O!LinkEnds
  <2>2. Sent'
    <3>1. DOMAIN sending' = Phones
      BY <2>1 DEF OadInv, Sent
    <3>2. \A r \in Phones : sending'[r] = O!NoFile \/ sending'[r] = sending[r]
      BY <2>1 DEF OadInv, Sent
    <3>3. O!NoFile.size \in Nat
      BY DEF O!NoFile
    <3>4. QED
      BY <3>1, <3>2, <3>3 DEF OadInv, Sent
  <2>3. CASE owner = p
    <3>1. event' # "accepted" /\ taken' = FALSE /\ owner' = "none"
      BY <1>4, <2>3 DEF O!LinkEnds, O!Close
    <3>2. QED
      BY <2>2, <3>1, NothingAccepted
  <2>4. CASE owner # p
    <3>1. UNCHANGED <<owner, taken, event>>
      BY <1>4, <2>4, Zenon DEF O!LinkEnds
    <3>2. QED
      BY <2>1, <2>2, <3>1, TransferRests
  <2>5. QED
    BY <2>3, <2>4
<1>5. CASE O!Expire
  <2>1. taken' = FALSE /\ owner' = "none" /\ UNCHANGED <<file, cursor, flash, sending, event>>
    BY <1>5, Zenon DEF O!Expire, O!Close
  <2>2. Sent'
    BY <2>1, Zenon DEF OadInv, Sent
  <2>3. QED
    BY <2>1, <2>2, NothingAccepted
<1>6. CASE O!Ingest
  <2>1. event' # "accepted" /\ UNCHANGED <<owner, taken, file, got, cursor, flash, sending>>
    BY <1>6 DEF O!Ingest
  <2>2. Sent'
    BY <2>1, Zenon DEF OadInv, Sent
  <2>3. QED
    BY <2>1, <2>2, TransferRests
<1>7. QED
  BY <1>1, <1>2, <1>3, <1>4, <1>5, <1>6, Zenon DEF O!Next, O!Dropped, O!Leaves

-----------------------------------------------------------------------------
(* The update over the serial line                                          *)

\* The receiver's number is one past what it handed over; after an EOT it is
\* 0, and nothing but EOTs and the end of the batch is on its way then.
\* What is readable on the line is in the order of the sender's steps.
Rank(m) == IF m.data = "end" THEN Y!End ELSE m.n
Late(m) == m.data = "noise" \/ Rank(m) >= Y!Eot
Packets == [n : 0..Y!Eot, data : {"good", "bad", "noise"}] \cup [n : {0}, data : {"end", "noise"}]

SerialInv ==
    /\ seq \in Nat /\ got \in Seq(Packets) /\ line \in Seq(Packets) /\ at \in 0..Y!Done
    /\ started \in BOOLEAN
    /\ seq # 0 => seq = Len(got) + 1 /\ started
    /\ ~started => got = <<>>
    /\ \A i \in DOMAIN line : line[i].data = "noise" \/ Rank(line[i]) <= at
    /\ \A i, j \in DOMAIN line :
         i <= j /\ line[i].data # "noise" => line[j].data = "noise" \/ Rank(line[i]) <= Rank(line[j])
    /\ seq = 0 /\ started => at >= Y!Eot /\ \A i \in DOMAIN line : Late(line[i])
    /\ Y!InOrder /\ Y!MarkedIsWhole
    /\ pend => result # "none"

LEMMA SerialBegins == ASSUME Y!YmodemAssumption PROVE Y!Init => SerialInv
<1> SUFFICES ASSUME Y!Init PROVE SerialInv
  OBVIOUS
<1>1. /\ seq = 0 /\ started = FALSE /\ got = <<>> /\ line = <<>> /\ at = 0 /\ pend = FALSE
  BY DEF Y!Init
<1>2. DOMAIN got = {} /\ DOMAIN line = {}
  BY <1>1
<1>3. Y!InOrder /\ Y!MarkedIsWhole
  BY <1>1, <1>2, Zenon DEF Y!InOrder, Y!MarkedIsWhole
<1>4. got \in Seq(Packets) /\ line \in Seq(Packets)
  BY <1>1
<1>5. at \in 0..Y!Done
  BY <1>1 DEF Y!YmodemAssumption, Y!Done
<1>6. QED
  BY <1>1, <1>2, <1>3, <1>4, <1>5 DEF SerialInv

\* A message of the sender's present step goes to the end of the line.
LEMMA LineGrows ==
  ASSUME Y!YmodemAssumption, SerialInv, NEW i \in 0..Y!End, i >= at,
         NEW m \in Packets, m.data = "noise" \/ Rank(m) = i,
         line' = Append(line, m) \/ (line = <<>> /\ line' = <<m>>), at' = i,
         UNCHANGED <<seq, retries, started, got, result, pend>>
  PROVE  SerialInv'
<1> USE DEF Y!YmodemAssumption, Y!End, Y!Eot, Y!Done
<1>1. line = <<>> => Len(line) = 0 /\ DOMAIN line = {}
  OBVIOUS
<1>2. /\ line' \in Seq(Packets) /\ DOMAIN line' = 1..Len(line) + 1
      /\ \A k \in DOMAIN line : line'[k] = line[k]
      /\ line'[Len(line) + 1] = m /\ DOMAIN line = 1..Len(line) /\ Len(line) \in Nat
  <2>1. CASE line' = Append(line, m)
    BY <2>1 DEF SerialInv
  <2>2. CASE line = <<>> /\ line' = <<m>>
    BY <1>1, <2>2
  <2>3. QED
    BY <2>1, <2>2
<1>3. \A k \in DOMAIN line' : k \in DOMAIN line \/ k = Len(line) + 1
  BY <1>2
<1>4. \A p \in Packets : Rank(p) \in Int
  BY DEF Rank, Packets
<1>5. \A k \in DOMAIN line' : line'[k].data = "noise" \/ Rank(line'[k]) <= at'
  <2> SUFFICES ASSUME NEW k \in DOMAIN line' PROVE line'[k].data = "noise" \/ Rank(line'[k]) <= at'
    OBVIOUS
  <2>1. CASE k \in DOMAIN line
    <3>1. line[k] \in Packets
      BY <2>1 DEF SerialInv
    <3>2. line[k].data = "noise" \/ Rank(line[k]) <= at
      BY <2>1 DEF SerialInv
    <3>3. at \in Int /\ Rank(line[k]) \in Int
      BY <3>1, <1>4 DEF SerialInv
    <3>4. QED
      BY <1>2, <2>1, <3>2, <3>3
  <2>2. CASE k = Len(line) + 1
    BY <1>2, <2>2
  <2>3. QED
    BY <1>3, <2>1, <2>2
<1>6. ASSUME NEW k \in DOMAIN line', NEW j \in DOMAIN line', k <= j, line'[k].data # "noise"
      PROVE  line'[j].data = "noise" \/ Rank(line'[k]) <= Rank(line'[j])
  <2>1. CASE j \in DOMAIN line
    <3>1. k \in DOMAIN line
      BY <1>2, <1>6, <2>1
    <3>2. QED
      BY <1>2, <1>6, <2>1, <3>1 DEF SerialInv
  <2>2. CASE j = Len(line) + 1
    <3>1. Rank(line'[k]) <= i
      BY <1>5, <1>6
    <3>2. QED
      BY <1>2, <2>2, <3>1
  <2>3. QED
    BY <1>3, <2>1, <2>2
<1>7. ASSUME seq = 0, started PROVE at' >= Y!Eot /\ \A k \in DOMAIN line' : Late(line'[k])
  <2>1. at >= Y!Eot /\ \A k \in DOMAIN line : Late(line[k])
    BY <1>7 DEF SerialInv
  <2>2. at \in Int /\ i >= Y!Eot
    BY <2>1 DEF SerialInv
  <2>3. Late(m)
    BY <2>2 DEF Late
  <2>4. QED
    BY <1>2, <1>3, <2>1, <2>2, <2>3
<1>8. (Y!InOrder /\ Y!MarkedIsWhole)'
  BY DEF SerialInv, Y!InOrder, Y!MarkedIsWhole, Y!Image, Y!Good
<1>9. /\ (seq \in Nat /\ got \in Seq(Packets) /\ started \in BOOLEAN)'
      /\ (seq # 0 => seq = Len(got) + 1 /\ started)'
      /\ (~started => got = <<>>)' /\ (pend => result # "none")'
  BY DEF SerialInv, Packets
<1>10. (line \in Seq(Packets) /\ at \in 0..Y!Done)'
  BY <1>2 DEF Packets
<1> QED
  BY <1>5, <1>6, <1>7, <1>8, <1>9, <1>10 DEF SerialInv

\* The receiver takes the first message off the line.
LEMMA LineShrinks ==
  ASSUME Y!YmodemAssumption, SerialInv, line # <<>>
  PROVE  /\ Head(line) \in Packets /\ Tail(line) \in Seq(Packets)
         /\ \A i \in DOMAIN Tail(line) : Tail(line)[i].data = "noise" \/ Rank(Tail(line)[i]) <= at
         /\ \A i, j \in DOMAIN Tail(line) :
              i <= j /\ Tail(line)[i].data # "noise" =>
                Tail(line)[j].data = "noise" \/ Rank(Tail(line)[i]) <= Rank(Tail(line)[j])
         /\ Head(line).data = "noise" \/
              (Rank(Head(line)) <= at /\
               \A i \in DOMAIN Tail(line) :
                  Tail(line)[i].data = "noise" \/ Rank(Head(line)) <= Rank(Tail(line)[i]))
         /\ seq = 0 /\ started => Late(Head(line)) /\ \A i \in DOMAIN Tail(line) : Late(Tail(line)[i])
<1>1. /\ line \in Seq(Packets) /\ Len(line) \in Nat /\ DOMAIN line = 1..Len(line) /\ 1 \in DOMAIN line
      /\ DOMAIN Tail(line) = 1..Len(line) - 1
      /\ \A i \in DOMAIN Tail(line) : Tail(line)[i] = line[i + 1] /\ i + 1 \in DOMAIN line /\ i \in Nat
      /\ Head(line) = line[1] /\ Tail(line) \in Seq(Packets)
  BY DEF SerialInv
<1>2. Head(line) \in Packets /\ Tail(line) \in Seq(Packets)
  BY <1>1
<1>3. \A i \in DOMAIN Tail(line) : Tail(line)[i].data = "noise" \/ Rank(Tail(line)[i]) <= at
  BY <1>1 DEF SerialInv
<1>4. ASSUME NEW i \in DOMAIN Tail(line), NEW j \in DOMAIN Tail(line), i <= j, Tail(line)[i].data # "noise"
      PROVE  Tail(line)[j].data = "noise" \/ Rank(Tail(line)[i]) <= Rank(Tail(line)[j])
  <2>1. i + 1 <= j + 1
    BY <1>1, <1>4
  <2>2. QED
    BY <1>1, <1>4, <2>1 DEF SerialInv
<1>5. ASSUME Head(line).data # "noise"
      PROVE  /\ Rank(Head(line)) <= at
             /\ \A i \in DOMAIN Tail(line) :
                  Tail(line)[i].data = "noise" \/ Rank(Head(line)) <= Rank(Tail(line)[i])
  <2>1. Rank(line[1]) <= at
    BY <1>1, <1>5 DEF SerialInv
  <2>2. ASSUME NEW i \in DOMAIN Tail(line)
        PROVE  Tail(line)[i].data = "noise" \/ Rank(line[1]) <= Rank(Tail(line)[i])
    <3>1. 1 <= i + 1
      BY <1>1
    <3>2. QED
      BY <1>1, <1>5, <3>1 DEF SerialInv
  <2>3. QED
    BY <1>1, <2>1, <2>2
<1>6. ASSUME seq = 0, started PROVE Late(Head(line)) /\ \A i \in DOMAIN Tail(line) : Late(Tail(line)[i])
  BY <1>1, <1>6 DEF SerialInv
<1>7. QED
  BY <1>2, <1>3, <1>4, <1>5, <1>6

\* What the receiver does with a message.
LEMMA SerialHears == ASSUME Y!YmodemAssumption, SerialInv, Y!Hear PROVE SerialInv'
<1> DEFINE b == Head(line)
           rest == Tail(line)
<1> USE DEF Y!YmodemAssumption
<1>1. /\ line # <<>> /\ result = "none" /\ line' = rest
      /\ UNCHANGED <<pend, at, resends, faults>>
  BY DEF Y!Hear
<1>2. /\ b \in Packets /\ rest \in Seq(Packets)
      /\ \A i \in DOMAIN rest : rest[i].data = "noise" \/ Rank(rest[i]) <= at
      /\ \A i, j \in DOMAIN rest :
           i <= j /\ rest[i].data # "noise" =>
             rest[j].data = "noise" \/ Rank(rest[i]) <= Rank(rest[j])
      /\ b.data = "noise" \/ (Rank(b) <= at /\
           \A i \in DOMAIN rest : rest[i].data = "noise" \/ Rank(b) <= Rank(rest[i]))
      /\ seq = 0 /\ started => Late(b) /\ \A i \in DOMAIN rest : Late(rest[i])
  BY <1>1, LineShrinks, Zenon
<1>3. /\ seq \in Nat /\ got \in Seq(Packets) /\ started \in BOOLEAN /\ at \in 0..Y!Done
      /\ seq # 0 => seq = Len(got) + 1 /\ started
      /\ ~started => got = <<>>
      /\ seq = 0 /\ started => at >= Y!Eot
      /\ Y!InOrder /\ ~pend
  BY <1>1 DEF SerialInv
<1>4. SUFFICES /\ seq' \in Nat /\ got' \in Seq(Packets) /\ started' \in BOOLEAN
               /\ seq' # 0 => seq' = Len(got') + 1 /\ started'
               /\ ~started' => got' = <<>>
               /\ seq' = 0 /\ started' => at >= Y!Eot /\ \A i \in DOMAIN rest : Late(rest[i])
               /\ Y!InOrder'
  <2>1. Y!MarkedIsWhole'
    BY <1>1, <1>3 DEF Y!MarkedIsWhole
  <2> HIDE DEF rest
  <2>2. QED
    BY <1>1, <1>2, <1>3, <1>4, <2>1, Zenon DEF SerialInv
<1> HIDE DEF b, rest
<1>5. UNCHANGED got => Y!InOrder'
  BY <1>3, Zenon DEF Y!InOrder
<1>6. CASE b.data = "noise" /\ Y!Retry
  <2>1. UNCHANGED <<seq, started, got>>
    BY <1>6, Zenon DEF Y!Retry, Y!Over
  <2>2. QED
    BY <1>2, <1>3, <1>5, <2>1
<1>7. CASE b.data # "noise" /\ b.n = Y!Eot /\ Y!HearEot
  <2>1. seq' = 0 /\ UNCHANGED <<started, got>>
    BY <1>7, Zenon DEF Y!HearEot
  <2>2. Rank(b) = Y!Eot
    BY <1>2, <1>7 DEF Rank, Packets, Y!Eot
  <2>3. at >= Y!Eot /\ \A i \in DOMAIN rest : Late(rest[i])
    BY <1>2, <1>3, <1>7, <2>2 DEF Late, Y!Eot, Y!Done
  <2>4. QED
    BY <1>3, <1>5, <2>1, <2>3
<1>8. CASE b.data # "noise" /\ b.n # Y!Eot /\ Y!Block(b)
  <2>1. CASE Y!HearOther(b) \/ Y!HearEnd
    <3>1. UNCHANGED <<seq, started, got>>
      BY <2>1, Zenon DEF Y!HearOther, Y!HearEnd, Y!Over
    <3>2. QED
      BY <1>2, <1>3, <1>5, <3>1
  <2>2. CASE seq = 0 /\ b.data # "end" /\ Y!HearName
    <3>1. seq' = 1 /\ started' = TRUE /\ UNCHANGED got
      BY <2>2, Zenon DEF Y!HearName
    <3>2. ~started
      <4> SUFFICES ASSUME started PROVE FALSE
        OBVIOUS
      <4>1. Late(b)
        BY <1>2, <2>2
      <4>2. b.n >= Y!Eot
        BY <1>8, <2>2, <4>1 DEF Late, Rank
      <4>3. QED
        BY <1>2, <1>8, <4>2 DEF Packets, Y!Eot
    <3>3. QED
      BY <1>3, <1>5, <3>1, <3>2
  <2>3. CASE seq # 0 /\ b.n % Wrap = seq % Wrap /\ Y!HearData(b)
    <3>1. got' = Append(got, b) /\ seq' = seq + 1 /\ started' = TRUE
      BY <2>3, Zenon DEF Y!HearData
    <3>2. seq = Len(got) + 1 /\ Len(got) \in Nat
      BY <1>3, <2>3
    <3>3. /\ got' \in Seq(Packets) /\ Len(got') = seq
          /\ DOMAIN got' = 1..seq /\ got'[seq] = b /\ DOMAIN got = 1..seq - 1
          /\ \A i \in 1..seq - 1 : got'[i] = got[i]
      BY <1>2, <1>3, <3>1, <3>2
    <3>4. \A i \in DOMAIN got' : i \in 1..seq - 1 \/ i = seq
      BY <1>3, <3>3
    <3>5. Y!InOrder'
      BY <1>3, <2>3, <3>3, <3>4 DEF Y!InOrder
    <3>6. QED
      BY <1>3, <3>1, <3>3, <3>5
  <2>4. QED
    BY <1>8, <2>1, <2>2, <2>3, Zenon DEF Y!Block, Y!Unawaited
<1>9. QED
  <2>1. CASE b.data = "noise"
    <3>1. Y!Retry
      BY <2>1, Zenon DEF Y!Hear, b
    <3>2. QED
      BY <1>6, <2>1, <3>1, Zenon
  <2>2. CASE b.data # "noise" /\ b.n = Y!Eot
    <3>1. Y!HearEot
      BY <2>2, Zenon DEF Y!Hear, b
    <3>2. QED
      BY <1>7, <2>2, <3>1, Zenon
  <2>3. CASE b.data # "noise" /\ b.n # Y!Eot
    <3>1. Y!Block(b)
      BY <2>3, Zenon DEF Y!Hear, b
    <3>2. QED
      BY <1>8, <2>3, <3>1, Zenon
  <2>4. QED
    BY <2>1, <2>2, <2>3, Zenon

\* What may be on the line for a step of the sender.
LEMMA SentPacket ==
  ASSUME Y!YmodemAssumption, NEW i \in 0..Y!End, NEW m \in Y!Fates(Y!Message(i)),
         m = Y!Message(i) \/ (m.data = "bad" => i \in 1..NBlocks)
  PROVE  m \in Packets /\ (m.data = "noise" \/ Rank(m) = i)
<1> USE DEF Y!YmodemAssumption
<1>1. \/ m = Y!Message(i)
      \/ m = [Y!Message(i) EXCEPT !.data = "noise"]
      \/ m = [Y!Message(i) EXCEPT !.data = "bad"] /\ i \in 1..NBlocks
  BY DEF Y!Fates, Y!Message, Y!Good
<1>2. CASE i = Y!End
  BY <1>1, <1>2 DEF Y!Message, Packets, Rank, Y!End, Y!Eot
<1>3. CASE i # Y!End
  <2>1. i \in 0..Y!Eot
    BY <1>3 DEF Y!Eot, Y!End
  <2>2. QED
    BY <1>1, <1>3, <2>1 DEF Y!Message, Y!Good, Packets, Rank
<1>4. QED
  BY <1>2, <1>3

\* Every step.
LEMMA SerialKept == ASSUME Y!YmodemAssumption, SerialInv, [Y!Next]_(Y!vars) PROVE SerialInv'
<1> USE DEF Y!YmodemAssumption
<1>1. CASE Y!Hear
  BY <1>1, SerialHears
<1>2. ASSUME UNCHANGED <<seq, started, got, pend, line, at>>, pend => result' # "none" PROVE SerialInv'
  BY <1>2, Zenon DEF SerialInv, Y!InOrder, Y!MarkedIsWhole
<1>3. CASE Y!HearNothing
  <2>1. UNCHANGED <<seq, started, got, pend, line, at>> /\ result = "none"
    BY <1>3, Zenon DEF Y!HearNothing, Y!Retry, Y!Over
  <2>2. ~pend
    BY <2>1, Zenon DEF SerialInv
  <2>3. QED
    BY <1>2, <2>1, <2>2, Zenon
<1>4. CASE Y!Update
  <2>1. /\ result = "ok" /\ got = Y!Image /\ pend' = TRUE
        /\ UNCHANGED <<seq, retries, started, got, result, line, acks, at, resends, faults>>
    BY <1>4, Zenon DEF Y!Update, Y!CrcRight
  <2>2. Y!InOrder' /\ Y!MarkedIsWhole' /\ result' # "none"
    BY <2>1 DEF SerialInv, Y!InOrder, Y!MarkedIsWhole, Y!Image, Y!Good
  <2>3. QED
    BY <2>1, <2>2, Zenon DEF SerialInv
<1>5. CASE Y!Start
  <2>1. PICK m \in Y!Fates(Y!Message(0)) :
          (m = Y!Message(0) \/ (m.data = "bad" => 0 \in 1..NBlocks)) /\ line' = Append(line, m)
    BY <1>5, Zenon DEF Y!Start, Y!Transmit
  <2>2. /\ at = 0 /\ at' = 0 /\ UNCHANGED <<seq, retries, started, got, result, pend>> /\ 0 \in 0..Y!End
    BY <1>5 DEF Y!Start, Y!Quiet, Y!End
  <2>3. m \in Packets /\ (m.data = "noise" \/ Rank(m) = 0)
    BY SentPacket, <2>1, <2>2, Zenon
  <2>4. 0 >= at
    BY <2>2
  <2>5. QED
    BY <2>1, <2>2, <2>3, <2>4, LineGrows, Zenon
<1>6. CASE Y!Acked
  <2>1. /\ at \in 0..Y!End /\ at' = at + 1 /\ UNCHANGED <<seq, retries, started, got, result, pend>>
    BY <1>6 DEF Y!Acked, Y!Quiet, SerialInv, Y!Done, Y!End
  <2>2. CASE at = Y!End
    <3>1. UNCHANGED line
      BY <1>6, <2>2, Zenon DEF Y!Acked
    <3>2. \A i \in DOMAIN line : line[i].data = "noise" \/ Rank(line[i]) <= at'
      <4>1. \A p \in Packets : Rank(p) \in Int
        BY DEF Rank, Packets, Y!End, Y!Eot
      <4>2. \A i \in DOMAIN line : line[i] \in Packets
        BY DEF SerialInv
      <4>3. QED
        BY <2>1, <4>1, <4>2 DEF SerialInv
    <3>3. at' \in 0..Y!Done /\ at' >= Y!Eot
      BY <2>1, <2>2 DEF Y!Done, Y!End, Y!Eot
    <3>4. QED
      BY <2>1, <3>1, <3>2, <3>3, Zenon DEF SerialInv, Y!InOrder, Y!MarkedIsWhole
  <2>3. CASE at # Y!End
    <3>1. PICK m \in Y!Fates(Y!Message(at + 1)) :
            (m = Y!Message(at + 1) \/ (m.data = "bad" => at + 1 \in 1..NBlocks)) /\ line' = Append(line, m)
      BY <1>6, <2>3, Zenon DEF Y!Acked, Y!Transmit
    <3>2. at + 1 \in 0..Y!End /\ at + 1 >= at
      BY <2>1, <2>3 DEF Y!End
    <3>3. m \in Packets /\ (m.data = "noise" \/ Rank(m) = at + 1)
      BY SentPacket, <3>1, <3>2
    <3>4. QED
      BY <2>1, <3>1, <3>2, <3>3, LineGrows, Zenon
  <2>4. QED
    BY <2>2, <2>3
<1>7. CASE Y!Resend
  <2>1. /\ at \in 0..Y!End /\ at' = at /\ line = <<>> /\ line' = <<Y!Message(at)>>
        /\ UNCHANGED <<seq, retries, started, got, result, pend>>
    BY <1>7 DEF Y!Resend, Y!Quiet, SerialInv, Y!Done, Y!End
  <2>2. Y!Message(at) \in Packets /\ Rank(Y!Message(at)) = at
    BY <2>1 DEF Y!Message, Y!Good, Packets, Rank, Y!End, Y!Eot
  <2>3. at >= at
    BY <2>1
  <2>4. QED
    BY <2>1, <2>2, <2>3, LineGrows
<1>8. CASE Y!LoseAck
  <2>1. UNCHANGED <<seq, started, got, pend, line, at, result>>
    BY <1>8, Zenon DEF Y!LoseAck, Y!Quiet
  <2>2. QED
    BY <1>2, <2>1, Zenon DEF SerialInv
<1>9. CASE UNCHANGED Y!vars
  <2>1. UNCHANGED <<seq, started, got, pend, line, at, result>>
    BY <1>9, Zenon DEF Y!vars
  <2>2. QED
    BY <1>2, <2>1, Zenon DEF SerialInv
<1>10. QED
  BY <1>1, <1>3, <1>4, <1>5, <1>6, <1>7, <1>8, <1>9, Zenon DEF Y!Next

-----------------------------------------------------------------------------
(* The store of the phones' keys                                            *)

\* What a slot may come to hold: the sector's copy counts until it is
\* programmed. A batch's useful slots are those its keys can still have.
Inflight == pc \in {"read", "erase", "program", "verify"}
Copies(s) == {flash[s]} \cup {x \in {scratch[s]} : pc \in {"erase", "program"}}
Others == {"blank", "torn", "mid", "mfg"}
Named(ks) == {ks[i] : i \in DOMAIN ks}
Useful(ks) == {s \in K!KeySlots : Copies(s) \subseteq Named(ks) \cup {"blank", "torn"}}
Kinds == {"none", "add", "batch", "mfg", "delete", "served", "refused", "hooked"}

\* Every key has been let in, lies in a key slot and lies in no other one.
StoreHeld ==
    /\ flash \in [K!Slots -> K!Recs] /\ scratch \in [K!Slots -> K!Recs] /\ granted \subseteq Keys
    /\ job \in [kind : Kinds, keys : Seq(Keys)]
    /\ pc \in {"idle", "choose", "read", "erase", "program", "verify"}
    /\ \A s \in K!Slots : Copies(s) \subseteq granted \cup Others
    /\ \A s \in K!Slots, k \in Keys : k \in Copies(s) => s \in K!KeySlots
    /\ \A s, t \in K!Slots, k \in Keys : k \in Copies(s) /\ k \in Copies(t) => s = t

\* What is being written has been let in, and no other slot holds it.
RecordHeld ==
    Inflight => /\ slot \in K!Slots /\ rec \in granted \cup Others
                /\ rec \in Keys => slot \in K!KeySlots
                /\ rec \in Keys => \A s \in K!Slots : rec \in Copies(s) => s = slot
                /\ job.kind \in {"add", "batch"} => job.keys # <<>> /\ rec = Head(job.keys)

\* The key that is being deleted lies where it is deleted.
DeleteHeld ==
    job.kind = "delete" => /\ Inflight /\ rec = "blank" /\ job.keys # <<>>
                           /\ \A s \in K!Slots : Head(job.keys) \in Copies(s) => s = slot

\* A batch's keys are no more than the slots they can still have.
BatchHeld ==
    job.kind = "batch" => /\ Cardinality(Named(job.keys)) <= Cardinality(Useful(job.keys))
                          /\ Inflight => slot \in Useful(job.keys)

KeysInv == StoreHeld /\ RecordHeld /\ DeleteHeld /\ BatchHeld

LEMMA SameSize == ASSUME NEW A PROVE K!Cardinality(A) = Cardinality(A)
  BY Zenon DEF K!Cardinality, Cardinality

LEMMA SlotsFinite ==
  ASSUME K!KeyStoreAssumption
  PROVE  /\ K!KeySlots \subseteq K!Slots /\ K!Slots \subseteq Nat
         /\ IsFiniteSet(K!KeySlots)
         /\ K!MidSlot \in K!Slots \ K!KeySlots /\ K!MfgSlot \in K!Slots \ K!KeySlots
<1>1. Keyed \in Nat
  BY DEF K!KeyStoreAssumption
<1>2. IsFiniteSet(0..Keyed - 1)
  BY <1>1, FS_Interval
<1>3. QED
  BY <1>1, <1>2 DEF K!KeySlots, K!Slots, K!MidSlot, K!MfgSlot

LEMMA NamedFinite ==
  ASSUME NEW ks \in Seq(Keys)
  PROVE  IsFiniteSet(Named(ks)) /\ Cardinality(Named(ks)) \in Nat /\ Named(ks) \subseteq Keys
<1>1. DOMAIN ks = 1..Len(ks) /\ Len(ks) \in Nat
  OBVIOUS
<1>2. IsFiniteSet(1..Len(ks))
  BY <1>1, FS_Interval
<1>3. ks \in Surjection(1..Len(ks), Named(ks))
  <2>1. ks \in [1..Len(ks) -> Named(ks)]
    BY <1>1 DEF Named
  <2>2. QED
    BY <1>1, <2>1 DEF Named, Surjection
<1>4. IsFiniteSet(Named(ks))
  BY <1>2, <1>3, FS_Surjection
<1>5. Named(ks) \subseteq Keys
  BY <1>1 DEF Named
<1>6. QED
  BY <1>4, <1>5, FS_CardinalityType

LEMMA UsefulFinite ==
  ASSUME K!KeyStoreAssumption, NEW T, T \subseteq K!KeySlots
  PROVE  IsFiniteSet(T) /\ Cardinality(T) \in Nat
<1>1. IsFiniteSet(T)
  BY SlotsFinite, FS_Subset
<1>2. QED
  BY <1>1, FS_CardinalityType

\* The first of some slots is one of them.
LEMMA FirstIsOne ==
  ASSUME NEW T, T \subseteq Nat, T # {} PROVE K!First(T) \in T
<1>1. \E s \in T : \A t \in T : s <= t
  BY LeastNatural
<1>2. QED
  BY <1>1, Zenon DEF K!First

LEMMA KeysBegin == ASSUME K!KeyStoreAssumption PROVE K!Init => KeysInv
<1> SUFFICES ASSUME K!Init PROVE KeysInv
  OBVIOUS
<1>1. /\ flash = [s \in K!Slots |-> "blank"] /\ scratch = [s \in K!Slots |-> "blank"]
      /\ pc = "idle" /\ granted = {} /\ job = [kind |-> "none", keys |-> <<>>]
  BY DEF K!Init, K!Blank, K!NoJob
<1>2. \A s \in K!Slots : Copies(s) = {"blank"}
  BY <1>1 DEF Copies
<1>3. \A k \in Keys : k # "blank"
  BY DEF K!KeyStoreAssumption
<1>4. <<>> \in Seq(Keys)
  OBVIOUS
<1>5. StoreHeld
  BY <1>1, <1>2, <1>3, <1>4 DEF StoreHeld, K!Recs, Others, Kinds
<1>6. ~Inflight /\ job.kind = "none"
  BY <1>1 DEF Inflight
<1>7. QED
  BY <1>5, <1>6 DEF KeysInv, RecordHeld, DeleteHeld, BatchHeld

\* A batch whose keys are no more than its useful slots has one for each.
LEMMA OneForEach ==
  ASSUME K!KeyStoreAssumption, StoreHeld, pc \notin {"erase", "program"}, NEW ks \in Seq(Keys),
         Cardinality(Named(ks)) <= Cardinality(Useful(ks)), NEW k \in Named(ks)
  PROVE  K!SlotsFor(k) # {}
<1> SUFFICES ASSUME K!SlotsFor(k) = {} PROVE FALSE
  OBVIOUS
<1>1. K!Holders(k) = {} /\ K!FreeSlots = {}
  BY Zenon DEF K!SlotsFor
<1>2. /\ IsFiniteSet(Named(ks)) /\ Cardinality(Named(ks)) \in Nat /\ Named(ks) \subseteq Keys
      /\ Useful(ks) \subseteq K!KeySlots
      /\ IsFiniteSet(Useful(ks)) /\ Cardinality(Useful(ks)) \in Nat
  <2>1. Useful(ks) \subseteq K!KeySlots
    BY Zenon DEF Useful
  <2>2. QED
    BY <2>1, NamedFinite, UsefulFinite
<1> DEFINE U == Useful(ks)
           N == Named(ks) \ {k}
           f == [s \in U |-> flash[s]]
<1>3. ASSUME NEW s \in U PROVE flash[s] \in N
  <2>1. s \in K!KeySlots /\ flash[s] \in Named(ks) \cup {"blank", "torn"}
    BY DEF Useful, Copies
  <2>2. flash[s] # k
    BY <1>1, <2>1, Zenon DEF K!Holders
  <2>3. flash[s] \notin {"blank", "torn"}
    BY <1>1, <2>1, Zenon DEF K!FreeSlots, K!Valid
  <2>4. QED
    BY <2>1, <2>2, <2>3
<1>4. ASSUME NEW s \in U, NEW t \in U, flash[s] = flash[t] PROVE s = t
  <2>1. flash[s] \in Keys /\ flash[s] \in Copies(s) /\ flash[s] \in Copies(t)
    BY <1>2, <1>3, <1>4 DEF Copies
  <2>2. s \in K!Slots /\ t \in K!Slots
    BY <1>2, SlotsFinite
  <2>3. QED
    BY <2>1, <2>2, Zenon DEF StoreHeld
<1> HIDE DEF U, N
<1>5. f \in Injection(U, N)
  <2>1. f \in [U -> N]
    BY <1>3
  <2>2. \A s, t \in U : f[s] = f[t] => s = t
    BY <1>4
  <2>3. QED
    BY <2>1, <2>2, Zenon DEF Injection, IsInjective
<1>6. IsFiniteSet(N) /\ Cardinality(N) = Cardinality(Named(ks)) - 1
  BY <1>2, FS_RemoveElement DEF N
<1>7. Cardinality(U) <= Cardinality(N)
  BY <1>5, <1>6, FS_Injection
<1>8. QED
  BY <1>2, <1>6, <1>7 DEF U

\* A batch that is let in has as many useful slots as keys.
LEMMA BatchEnters ==
  ASSUME K!KeyStoreAssumption, StoreHeld, pc = "idle", NEW ks \in Seq(Keys), K!Fits(ks)
  PROVE  Cardinality(Named(ks)) <= Cardinality(Useful(ks))
<1> DEFINE D == 1..Len(ks)
           I == {i \in D : K!Holders(ks[i]) # {}}
           H == {k \in Named(ks) : K!Holders(k) # {}}
           R == {ks[i] : i \in D \ I}
           F == K!FreeSlots
           P == {s \in K!KeySlots : flash[s] \in H}
<1>0. Len(ks) \in Nat /\ DOMAIN ks = D /\ \A i \in D : ks[i] \in Keys
  OBVIOUS
<1>1. IsFiniteSet(D) /\ Cardinality(D) = Len(ks)
  <2>1. IsFiniteSet(1..Len(ks)) /\ Cardinality(1..Len(ks)) = IF 1 > Len(ks) THEN 0 ELSE Len(ks) - 1 + 1
    <3>1. 1 \in Int /\ Len(ks) \in Int
      BY <1>0
    <3>2. QED
      BY <3>1, FS_Interval, Zenon
  <2>2. QED
    BY <1>0, <2>1
<1>2. /\ IsFiniteSet(Named(ks)) /\ Cardinality(Named(ks)) \in Nat /\ Named(ks) \subseteq Keys
      /\ Named(ks) = {ks[i] : i \in D}
  BY <1>0, NamedFinite DEF Named
<1>3. Cardinality(I) + Cardinality(F) >= Len(ks)
  BY <1>0, SameSize DEF K!Fits
<1>4. /\ IsFiniteSet(I) /\ Cardinality(I) \in Nat
      /\ IsFiniteSet(D \ I) /\ Cardinality(D \ I) = Len(ks) - Cardinality(I)
  <2>1. IsFiniteSet(I) /\ Cardinality(I) \in Nat
    BY <1>1, FS_Subset, FS_CardinalityType
  <2>2. D \cap I = I
    OBVIOUS
  <2> HIDE DEF D, I
  <2>3. IsFiniteSet(D \ I) /\ Cardinality(D \ I) = Cardinality(D) - Cardinality(D \cap I)
    BY <1>1, FS_Difference
  <2>4. QED
    BY <1>1, <2>1, <2>2, <2>3
<1>5. IsFiniteSet(R) /\ Cardinality(R) \in Nat /\ Cardinality(R) <= Cardinality(D \ I)
  <2> DEFINE g == [i \in D \ I |-> ks[i]]
  <2>1. g \in Surjection(D \ I, R)
    BY DEF Surjection
  <2> HIDE DEF g, I, R, D
  <2>2. QED
    BY <1>4, <2>1, FS_Surjection, FS_CardinalityType
<1>6. /\ F \subseteq K!KeySlots /\ P \subseteq K!KeySlots
      /\ IsFiniteSet(F) /\ Cardinality(F) \in Nat /\ IsFiniteSet(P) /\ Cardinality(P) \in Nat
  <2>1. F \subseteq K!KeySlots /\ P \subseteq K!KeySlots
    BY DEF K!FreeSlots
  <2>2. QED
    BY <2>1, UsefulFinite
<1>7. IsFiniteSet(H) /\ Cardinality(H) \in Nat /\ Cardinality(H) <= Cardinality(P)
  <2> DEFINE g == [s \in P |-> flash[s]]
  <2>1. g \in Surjection(P, H)
    <3>1. g \in [P -> H]
      OBVIOUS
    <3>2. ASSUME NEW k \in H PROVE \E s \in P : g[s] = k
      <4>1. PICK s \in K!KeySlots : flash[s] = k
        BY Zenon DEF K!Holders
      <4>2. QED
        BY <4>1
    <3>3. QED
      BY <3>1, <3>2, Zenon DEF Surjection
  <2> HIDE DEF g, H, P
  <2>2. QED
    BY <1>6, <2>1, FS_Surjection, FS_CardinalityType
<1>8. Cardinality(Named(ks)) <= Cardinality(H) + Cardinality(R)
  <2>1. Named(ks) = H \cup R
    BY <1>2
  <2> HIDE DEF H, R
  <2>2. /\ IsFiniteSet(H \cap R) /\ Cardinality(H \cap R) \in Nat
        /\ Cardinality(H \cup R) = Cardinality(H) + Cardinality(R) - Cardinality(H \cap R)
    BY <1>5, <1>7, FS_Union, FS_Intersection, FS_CardinalityType
  <2>3. QED
    BY <1>5, <1>7, <2>1, <2>2
<1>9. Cardinality(F) + Cardinality(P) <= Cardinality(Useful(ks))
  <2>1. \A k \in Keys : k \notin {"blank", "torn"}
    BY DEF K!KeyStoreAssumption
  <2>2. F \cap P = {}
    BY <1>2, <2>1 DEF K!FreeSlots, K!Valid
  <2>3. \A s : Copies(s) = {flash[s]}
    BY DEF Copies
  <2>4. F \cup P \subseteq Useful(ks)
    BY <2>3 DEF Useful, K!FreeSlots, K!Valid
  <2>5. Useful(ks) \subseteq K!KeySlots
    BY Zenon DEF Useful
  <2>6. IsFiniteSet(Useful(ks)) /\ Cardinality(Useful(ks)) \in Nat
    BY <2>5, UsefulFinite
  <2> HIDE DEF F, P
  <2>7. Cardinality(F \cup P) = Cardinality(F) + Cardinality(P) - 0
    BY <1>6, <2>2, FS_Union, FS_EmptySet
  <2>8. Cardinality(F \cup P) <= Cardinality(Useful(ks))
    BY <2>4, <2>6, FS_Subset
  <2>9. QED
    BY <1>6, <2>7, <2>8
<1>10. Cardinality(Useful(ks)) \in Nat
  <2>1. Useful(ks) \subseteq K!KeySlots
    BY Zenon DEF Useful
  <2>2. QED
    BY <2>1, UsefulFinite
<1> HIDE DEF D, I, H, R, F, P
<1>11. QED
  BY <1>0, <1>2, <1>3, <1>4, <1>5, <1>6, <1>7, <1>8, <1>9, <1>10

\* A step of the driver leaves in a slot what was or was to be there, or
\* tears it, or blanks it.
Rewriting ==
  /\ \A s \in K!Slots : Copies(s)' \subseteq
        Copies(s) \cup {"blank", "torn"} \cup {x \in {rec} : Inflight /\ s = slot}
  /\ UNCHANGED <<granted, slot, rec>>
  /\ (Inflight' => Inflight) /\ ((job' = job /\ (Inflight => Inflight')) \/ (job' = K!NoJob /\ pc' = "idle"))
  /\ flash' \in [K!Slots -> K!Recs] /\ scratch' \in [K!Slots -> K!Recs]
  /\ pc' \in {"idle", "choose", "read", "erase", "program", "verify"}

LEMMA RewritingKept == ASSUME K!KeyStoreAssumption, KeysInv, Rewriting PROVE KeysInv'
<1>0. StoreHeld /\ RecordHeld /\ DeleteHeld /\ BatchHeld
  BY DEF KeysInv
<1>1. \A k \in Keys : k \notin Others
  BY DEF K!KeyStoreAssumption, Others
<1>2. job' \in [kind : Kinds, keys : Seq(Keys)]
  <2>1. K!NoJob \in [kind : Kinds, keys : Seq(Keys)]
    BY DEF K!NoJob, Kinds
  <2>2. QED
    BY <1>0, <2>1, Zenon DEF StoreHeld, Rewriting
<1>3. ASSUME NEW s \in K!Slots, NEW x \in Copies(s)'
      PROVE  x \in Copies(s) \/ x \in {"blank", "torn"} \/ (x = rec /\ Inflight /\ s = slot)
  BY <1>3, Zenon DEF Rewriting
<1>4. ASSUME NEW s \in K!Slots, NEW k \in Keys, k \in Copies(s)'
      PROVE  k \in Copies(s) \/ (k = rec /\ Inflight /\ s = slot)
  BY <1>1, <1>3, <1>4 DEF Others
<1>5. \A s \in K!Slots : Copies(s)' \subseteq granted' \cup Others
  BY <1>0, <1>3 DEF StoreHeld, RecordHeld, Rewriting, Others
<1>6. ASSUME NEW s \in K!Slots, NEW k \in Keys, k \in Copies(s)' PROVE s \in K!KeySlots
  BY <1>0, <1>4, <1>6, Zenon DEF StoreHeld, RecordHeld
<1>7. ASSUME NEW s \in K!Slots, NEW t \in K!Slots, NEW k \in Keys, k \in Copies(s)', k \in Copies(t)'
      PROVE  s = t
  <2>1. k \in Copies(s) \/ (k = rec /\ Inflight /\ s = slot)
    BY <1>4, <1>7
  <2>2. k \in Copies(t) \/ (k = rec /\ Inflight /\ t = slot)
    BY <1>4, <1>7
  <2>3. CASE k \in Copies(s) /\ k \in Copies(t)
    BY <1>0, <2>3, Zenon DEF StoreHeld
  <2>4. CASE k = rec /\ Inflight
    BY <1>0, <2>1, <2>2, <2>4, Zenon DEF RecordHeld
  <2>5. QED
    BY <2>1, <2>2, <2>3, <2>4
<1>8. StoreHeld'
  <2>1. granted' \subseteq Keys
    BY <1>0, Zenon DEF StoreHeld, Rewriting
  <2>2. QED
    BY <1>2, <1>5, <1>6, <1>7, <2>1, Zenon DEF StoreHeld, Rewriting, K!Slots, K!KeySlots, K!MfgSlot, K!Recs, Others, Kinds
<1>9. RecordHeld'
  <2>1. SUFFICES ASSUME Inflight' PROVE RecordHeld'
    BY Zenon DEF RecordHeld
  <2>2. Inflight /\ job' = job
    <3>1. pc' # "idle"
      BY <2>1 DEF Inflight
    <3>2. QED
      BY <2>1, <3>1, Zenon DEF Rewriting
  <2>3. ASSUME rec \in Keys, NEW s \in K!Slots, rec \in Copies(s)' PROVE s = slot
    BY <1>0, <1>4, <2>2, <2>3, Zenon DEF RecordHeld
  <2>4. QED
    BY <1>0, <2>2, <2>3, Zenon DEF RecordHeld, Rewriting, K!Slots, K!KeySlots, K!MfgSlot, Others
<1>10. DeleteHeld'
  <2>1. SUFFICES ASSUME job'.kind = "delete" PROVE DeleteHeld'
    BY Zenon DEF DeleteHeld
  <2>2. job' = job /\ (Inflight => Inflight')
    BY <2>1 DEF Rewriting, K!NoJob
  <2>3. Inflight /\ rec = "blank" /\ job.keys # <<>>
    BY <1>0, <2>1, <2>2, Zenon DEF DeleteHeld
  <2>4. Head(job.keys) \in Keys
    BY <1>0, <2>3 DEF StoreHeld
  <2>5. ASSUME NEW s \in K!Slots, Head(job.keys) \in Copies(s)' PROVE s = slot
    BY <1>0, <1>4, <2>1, <2>2, <2>4, <2>5, Zenon DEF DeleteHeld
  <2>6. QED
    BY <2>2, <2>3, <2>5, Zenon DEF DeleteHeld, Rewriting, K!Slots, K!MfgSlot
<1>11. BatchHeld'
  <2>1. SUFFICES ASSUME job'.kind = "batch" PROVE BatchHeld'
    BY Zenon DEF BatchHeld
  <2>2. job' = job
    BY <2>1 DEF Rewriting, K!NoJob
  <2> DEFINE ks == job.keys
  <2>3. ks \in Seq(Keys)
    BY <1>0 DEF StoreHeld
  <2>4. ASSUME NEW s \in Useful(ks) PROVE s \in Useful(ks)'
    <3>1. s \in K!KeySlots /\ s \in K!Slots /\ Copies(s) \subseteq Named(ks) \cup {"blank", "torn"}
      BY SlotsFinite DEF Useful
    <3>2. ASSUME Inflight PROVE rec \in Named(ks)
      <4>1. ks # <<>> /\ rec = Head(ks)
        BY <1>0, <2>1, <2>2, <3>2, Zenon DEF RecordHeld
      <4>2. QED
        BY <2>3, <4>1 DEF Named
    <3>3. Copies(s)' \subseteq Named(ks) \cup {"blank", "torn"}
      BY <1>3, <3>1, <3>2
    <3>4. QED
      BY <2>2, <3>1, <3>3, Zenon DEF Useful, Named, K!KeySlots
  <2>5. Cardinality(Useful(ks)) <= Cardinality(Useful(ks)')
    <3>1. Useful(ks)' \subseteq K!KeySlots
      BY Zenon DEF Useful, K!KeySlots
    <3>2. IsFiniteSet(Useful(ks)')
      BY <3>1, UsefulFinite
    <3>3. QED
      BY <2>4, <3>2, FS_Subset
  <2>6. Cardinality(Named(ks)) \in Nat /\ Cardinality(Useful(ks)) \in Nat /\ Cardinality(Useful(ks)') \in Nat
    <3>1. Useful(ks)' \subseteq K!KeySlots /\ Useful(ks) \subseteq K!KeySlots
      BY Zenon DEF Useful, K!KeySlots
    <3>2. QED
      BY <2>3, <3>1, NamedFinite, UsefulFinite
  <2>7. Cardinality(Named(ks)) <= Cardinality(Useful(ks)')
    <3>1. Cardinality(Named(ks)) <= Cardinality(Useful(ks))
      BY <1>0, <2>1, <2>2, Zenon DEF BatchHeld
    <3>2. QED
      BY <2>5, <2>6, <3>1
  <2>8. ASSUME Inflight' PROVE slot' \in Useful(ks)'
    <3>1. Inflight /\ slot' = slot
      BY <2>8, Zenon DEF Rewriting
    <3>2. slot \in Useful(ks)
      BY <1>0, <2>1, <2>2, <3>1, Zenon DEF BatchHeld
    <3>3. QED
      BY <2>4, <3>1, <3>2
  <2>9. Named(ks)' = Named(job.keys') /\ Named(ks)' = Named(ks)
    BY <2>2, Zenon DEF Named
  <2>10. QED
    BY <2>2, <2>7, <2>8, <2>9, Zenon DEF BatchHeld
<1>12. QED
  BY <1>8, <1>9, <1>10, <1>11 DEF KeysInv

\* Between the steps of the driver the slots hold what they held.
LEMMA SlotsRest ==
  ASSUME K!KeyStoreAssumption, StoreHeld, pc \in {"idle", "choose", "verify"},
         pc' \in {"idle", "choose", "read"}, UNCHANGED <<flash, scratch>>,
         NEW G, granted' = G, G \subseteq Keys, job' \in [kind : Kinds, keys : Seq(Keys)],
         \A s \in K!Slots : flash[s] \in G \cup Others
  PROVE  /\ StoreHeld' /\ \A s \in K!Slots : Copies(s)' = {flash[s]} /\ Copies(s) = {flash[s]}
<1>1. \A s : Copies(s)' = {flash[s]} /\ Copies(s) = {flash[s]}
  BY DEF Copies
<1>2. \A s \in K!Slots : Copies(s)' \subseteq granted' \cup Others
  BY <1>1
<1>3. StoreHeld'
  BY <1>1, <1>2, Zenon DEF StoreHeld, K!Slots, K!KeySlots, K!MfgSlot, K!Recs, Others, Kinds
<1>4. QED
  BY <1>1, <1>3

\* An order without keys left is answered: the record that may be written is
\* not a key.
LEMMA PlainRecord ==
  ASSUME K!KeyStoreAssumption, StoreHeld', job'.kind \notin {"add", "batch", "delete"},
         Inflight' => slot' \in K!Slots /\ rec' \in Others
  PROVE  KeysInv'
<1>1. rec' \in Others => rec' \notin Keys
  BY DEF K!KeyStoreAssumption, Others
<1>2. RecordHeld'
  BY <1>1, Zenon DEF RecordHeld, Others, K!Slots, K!MfgSlot
<1>3. DeleteHeld' /\ BatchHeld'
  BY DEF DeleteHeld, BatchHeld
<1>4. QED
  BY <1>2, <1>3 DEF KeysInv

LEMMA WriteInflight ==
  ASSUME NEW s, NEW r, K!Write(s, r) PROVE pc' = "read" /\ slot' = s /\ rec' = r /\ Inflight'
  BY DEF K!Write, Inflight

LEMMA Replied ==
  ASSUME K!KeyStoreAssumption, StoreHeld, pc \in {"idle", "choose", "verify"},
         UNCHANGED <<flash, scratch>>, NEW kind \in {"served", "refused"}, K!Reply(kind),
         granted' \subseteq Keys, \A s \in K!Slots : flash[s] \in granted' \cup Others
  PROVE  KeysInv'
<1>1. job' = [kind |-> kind, keys |-> <<>>]
  BY Zenon DEF K!Reply
<1>2. job' \in [kind : Kinds, keys : Seq(Keys)] /\ job'.kind \notin {"add", "batch", "delete"}
  BY <1>1 DEF Kinds
<1>3. pc' = "choose" \/ K!Write(K!MidSlot, "mid")
  BY Zenon DEF K!Reply
<1>4. pc' \in {"choose", "read"} /\ (Inflight' => slot' \in K!Slots /\ rec' \in Others)
  <2>1. CASE pc' = "choose"
    BY <2>1 DEF Inflight
  <2>2. CASE K!Write(K!MidSlot, "mid")
    BY <2>2, WriteInflight, SlotsFinite DEF Others
  <2>3. QED
    BY <1>3, <2>1, <2>2
<1>5. StoreHeld'
  BY <1>2, <1>4, SlotsRest
<1>6. QED
  BY <1>2, <1>4, <1>5, PlainRecord

\* Whatever the slots hold has been let in.
LEMMA HeldIsGranted ==
  ASSUME StoreHeld PROVE granted \subseteq Keys /\ \A s \in K!Slots : flash[s] \in granted \cup Others
  BY DEF StoreHeld, Copies

LEMMA StillWriting ==
  ASSUME \A s \in K!Slots : Copies(s)' \subseteq
             Copies(s) \cup {"blank", "torn"} \cup {x \in {rec} : Inflight /\ s = slot},
         UNCHANGED <<slot, rec, job, granted>>, Inflight, Inflight',
         flash' \in [K!Slots -> K!Recs], scratch' \in [K!Slots -> K!Recs],
         pc' \in {"read", "erase", "program", "verify"}
  PROVE  Rewriting
<1>1. pc' \in {"idle", "choose", "read", "erase", "program", "verify"}
  OBVIOUS
<1>2. granted' = granted /\ slot' = slot /\ rec' = rec /\ job' = job
  OBVIOUS
<1>3. QED
  BY <1>1, <1>2, Zenon DEF Rewriting

LEMMA ReadIsRewriting == ASSUME K!KeyStoreAssumption, KeysInv, K!Read PROVE Rewriting
<1>1. /\ pc = "read" /\ pc' = "erase" /\ scratch' = flash
      /\ UNCHANGED <<flash, slot, rec, job, granted>>
  BY Zenon DEF K!Read, K!writing
<1>2. \A s : Copies(s)' = {flash[s]} /\ flash[s] \in Copies(s)
  BY <1>1 DEF Copies
<1>3. Inflight /\ Inflight'
  BY <1>1 DEF Inflight
<1>4. flash' \in [K!Slots -> K!Recs] /\ scratch' \in [K!Slots -> K!Recs]
  BY <1>1 DEF KeysInv, StoreHeld
<1>5. pc' \in {"read", "erase", "program", "verify"}
  BY <1>1
<1>6. \A s : Copies(s)' \subseteq Copies(s)
  BY <1>2
<1>7. QED
  BY <1>1, <1>3, <1>4, <1>5, <1>6, StillWriting

LEMMA EraseIsRewriting == ASSUME K!KeyStoreAssumption, KeysInv, K!Erase PROVE Rewriting
<1>1. /\ pc = "erase" /\ pc' = "program" /\ scratch' = [scratch EXCEPT ![slot] = rec]
      /\ flash' = K!Blank \/ flash' = flash
      /\ UNCHANGED <<slot, rec, job, granted>>
  BY Zenon DEF K!Erase
<1>2. Inflight /\ Inflight'
  BY <1>1 DEF Inflight
<1>3. flash \in [K!Slots -> K!Recs] /\ scratch \in [K!Slots -> K!Recs]
  BY DEF KeysInv, StoreHeld
<1>4. slot \in K!Slots /\ rec \in K!Recs
  BY <1>2 DEF KeysInv, RecordHeld, StoreHeld, K!Recs, Others
<1>5. scratch' \in [K!Slots -> K!Recs]
  BY <1>1, <1>3, <1>4
<1>6. flash' \in [K!Slots -> K!Recs]
  BY <1>1, <1>3 DEF K!Blank, K!Recs
<1>7. ASSUME NEW s \in K!Slots
      PROVE  Copies(s)' \subseteq Copies(s) \cup {"blank", "torn"} \cup {x \in {rec} : Inflight /\ s = slot}
  <2>1. flash'[s] = "blank" \/ flash'[s] = flash[s]
    BY <1>1 DEF K!Blank
  <2>2. scratch'[s] = IF s = slot THEN rec ELSE scratch[s]
    BY <1>1, <1>3
  <2>3. Copies(s)' = {flash'[s], scratch'[s]} /\ Copies(s) = {flash[s], scratch[s]}
    BY <1>1 DEF Copies
  <2>4. QED
    BY <1>2, <2>1, <2>2, <2>3
<1>8. QED
  BY <1>1, <1>2, <1>5, <1>6, <1>7, StillWriting

LEMMA ProgramIsRewriting == ASSUME K!KeyStoreAssumption, KeysInv, K!Program PROVE Rewriting
<1>1. /\ pc = "program" /\ pc' \in {"verify", "program"}
      /\ flash' = [s \in K!Slots |-> IF s \in K!OnPage(page) THEN K!Over(s, scratch[s]) ELSE flash[s]]
      /\ UNCHANGED <<scratch, slot, rec, job, granted>>
  BY DEF K!Program
<1>2. Inflight /\ Inflight'
  BY <1>1 DEF Inflight
<1>3. flash \in [K!Slots -> K!Recs] /\ scratch \in [K!Slots -> K!Recs]
  BY DEF KeysInv, StoreHeld
<1>4. ASSUME NEW s \in K!Slots PROVE flash'[s] \in {flash[s], scratch[s], "torn"}
  BY <1>1, <1>4, Zenon DEF K!Over
<1>5. flash' \in [K!Slots -> K!Recs]
  <2>1. \A s \in K!Slots : flash'[s] \in K!Recs
    BY <1>3, <1>4 DEF K!Recs
  <2>2. DOMAIN flash' = K!Slots /\ flash' = [s \in K!Slots |-> flash'[s]]
    BY <1>1
  <2>3. QED
    BY <2>1, <2>2
<1>6. ASSUME NEW s \in K!Slots
      PROVE  Copies(s)' \subseteq Copies(s) \cup {"blank", "torn"} \cup {x \in {rec} : Inflight /\ s = slot}
  <2>1. Copies(s)' \subseteq {flash'[s], scratch[s]} /\ Copies(s) = {flash[s], scratch[s]}
    BY <1>1 DEF Copies
  <2>2. QED
    BY <1>4, <2>1
<1>7. QED
  BY <1>1, <1>2, <1>3, <1>5, <1>6, StillWriting

LEMMA FailIsRewriting == ASSUME K!KeyStoreAssumption, KeysInv, K!Fail PROVE Rewriting
<1>1. /\ pc \in {"read", "program"} /\ pc' = "verify"
      /\ UNCHANGED <<flash, scratch, slot, rec, job, granted>>
  BY Zenon DEF K!Fail, K!writing
<1>2. Inflight /\ Inflight'
  BY <1>1 DEF Inflight
<1>3. \A s : Copies(s)' = {flash[s]} /\ flash[s] \in Copies(s)
  BY <1>1 DEF Copies
<1>4. flash' \in [K!Slots -> K!Recs] /\ scratch' \in [K!Slots -> K!Recs]
  BY <1>1 DEF KeysInv, StoreHeld
<1>5. pc' \in {"read", "erase", "program", "verify"}
  BY <1>1
<1>6. \A s : Copies(s)' \subseteq Copies(s)
  BY <1>3
<1>7. QED
  BY <1>1, <1>2, <1>4, <1>5, <1>6, StillWriting

LEMMA CutIsRewriting == ASSUME K!KeyStoreAssumption, KeysInv, K!Cut PROVE Rewriting
<1>1. /\ pc' = "idle" /\ job' = K!NoJob /\ UNCHANGED <<scratch, slot, rec, granted>>
      /\ \/ flash' = flash
         \/ flash' = [s \in K!Slots |-> IF s \in K!OnPage(page) /\ scratch[s] # "blank" THEN "torn" ELSE flash[s]]
  BY Zenon DEF K!Cut, K!writing
<1>2. ~Inflight'
  BY <1>1 DEF Inflight
<1>3. flash \in [K!Slots -> K!Recs] /\ scratch \in [K!Slots -> K!Recs]
  BY DEF KeysInv, StoreHeld
<1>4. ASSUME NEW s \in K!Slots PROVE flash'[s] \in {flash[s], "torn"}
  BY <1>1
<1>5. flash' \in [K!Slots -> K!Recs]
  <2>1. \A s \in K!Slots : flash'[s] \in K!Recs
    BY <1>3, <1>4 DEF K!Recs
  <2>2. CASE flash' = flash
    BY <1>3, <2>2
  <2>3. CASE flash' = [s \in K!Slots |-> IF s \in K!OnPage(page) /\ scratch[s] # "blank" THEN "torn" ELSE flash[s]]
    <3>1. DOMAIN flash' = K!Slots /\ flash' = [s \in K!Slots |-> flash'[s]]
      BY <2>3
    <3>2. QED
      BY <2>1, <3>1
  <2>4. QED
    BY <1>1, <2>2, <2>3
<1>6. \A s : Copies(s)' = {flash'[s]} /\ flash[s] \in Copies(s)
  BY <1>1 DEF Copies
<1>7. \A s \in K!Slots : Copies(s)' \subseteq
             Copies(s) \cup {"blank", "torn"} \cup {x \in {rec} : Inflight /\ s = slot}
  BY <1>4, <1>6
<1>8. granted' = granted /\ slot' = slot /\ rec' = rec /\ pc' = "idle" /\ job' = K!NoJob
  BY <1>1
<1>9. pc' \in {"idle", "choose", "read", "erase", "program", "verify"} /\ scratch' \in [K!Slots -> K!Recs]
  BY <1>1, <1>3
<1>10. QED
  BY <1>2, <1>5, <1>7, <1>8, <1>9, Zenon DEF Rewriting

\* A job with keys left: the first of them, and what stays when it is done.
LEMMA KeysOfJob ==
  ASSUME StoreHeld, job.keys # <<>>
  PROVE  /\ job.keys \in Seq(Keys) /\ Head(job.keys) \in Keys /\ Tail(job.keys) \in Seq(Keys)
         /\ Head(job.keys) \in Named(job.keys)
         /\ Named(job.keys) = Named(Tail(job.keys)) \cup {Head(job.keys)}
<1> DEFINE ks == job.keys
<1>1. ks \in Seq(Keys) /\ ks # <<>>
  BY DEF StoreHeld
<1> HIDE DEF ks
<1>2. Len(ks) \in Nat \ {0} /\ DOMAIN ks = 1..Len(ks) /\ Head(ks) = ks[1] /\ Head(ks) \in Keys
  BY <1>1
<1>3. Tail(ks) \in Seq(Keys) /\ DOMAIN Tail(ks) = 1..Len(ks) - 1
  BY <1>1
<1>4. \A i \in DOMAIN Tail(ks) : Tail(ks)[i] = ks[i + 1]
  BY <1>1, <1>3
<1>5. Head(ks) \in Named(ks)
  BY <1>2 DEF Named
<1>6. Named(ks) = Named(Tail(ks)) \cup {Head(ks)}
  <2>1. ASSUME NEW i \in DOMAIN ks PROVE ks[i] \in Named(Tail(ks)) \cup {Head(ks)}
    <3>1. CASE i = 1
      BY <1>2, <3>1
    <3>2. CASE i # 1
      <4>1. i - 1 \in DOMAIN Tail(ks) /\ (i - 1) + 1 = i
        BY <1>2, <1>3, <3>2
      <4>2. Tail(ks)[i - 1] = ks[i]
        BY <1>4, <4>1
      <4>3. QED
        BY <4>1, <4>2 DEF Named
    <3>3. QED
      BY <3>1, <3>2
  <2>2. ASSUME NEW i \in DOMAIN Tail(ks) PROVE Tail(ks)[i] \in Named(ks)
    <3>1. i + 1 \in DOMAIN ks
      BY <1>2, <1>3
    <3>2. QED
      BY <1>4, <3>1 DEF Named
  <2>3. QED
    BY <1>5, <2>1, <2>2 DEF Named
<1>7. QED
  BY <1>1, <1>2, <1>3, <1>5, <1>6 DEF ks

\* The next key of an order is written: to the slot that has it, or else to a
\* free one.
LEMMA KeyChosen ==
  ASSUME K!KeyStoreAssumption, KeysInv, pc = "choose", job.kind \in {"add", "batch"}, job.keys # <<>>,
         K!SlotsFor(Head(job.keys)) # {},
         K!Write(K!First(K!SlotsFor(Head(job.keys))), Head(job.keys)),
         granted' = granted \cup {Head(job.keys)}, UNCHANGED <<job, flash, scratch>>
  PROVE  KeysInv'
<1> DEFINE k == Head(job.keys)
           T == K!SlotsFor(k)
           s0 == K!First(T)
<1>0. StoreHeld /\ BatchHeld
  BY DEF KeysInv
<1>1. k \in Keys /\ k \in Named(job.keys)
  BY <1>0, KeysOfJob
<1>2. T \subseteq K!KeySlots /\ K!KeySlots \subseteq K!Slots /\ K!Slots \subseteq Nat
  BY SlotsFinite DEF K!SlotsFor, K!Holders, K!FreeSlots
<1>3. s0 \in T
  BY <1>2, FirstIsOne
<1>4. pc' = "read" /\ slot' = s0 /\ rec' = k /\ Inflight'
  BY WriteInflight
<1>5. StoreHeld' /\ \A s \in K!Slots : Copies(s)' = {flash[s]} /\ Copies(s) = {flash[s]}
  <2>1. granted' \subseteq Keys /\ \A s \in K!Slots : flash[s] \in granted' \cup Others
    BY <1>0, <1>1, HeldIsGranted
  <2>2. job' \in [kind : Kinds, keys : Seq(Keys)]
    BY <1>0 DEF StoreHeld
  <2>3. QED
    BY <1>0, <1>4, <2>1, <2>2, SlotsRest
<1>6. flash[s0] = k \/ (flash[s0] \in {"blank", "torn"} /\ K!Holders(k) = {})
  BY <1>3 DEF K!SlotsFor, K!Holders, K!FreeSlots, K!Valid
<1> HIDE DEF k, s0, T
<1>7. ASSUME NEW s \in K!Slots, k \in Copies(s)' PROVE s = s0
  <2>1. flash[s] = k /\ k \in Copies(s)
    BY <1>5, <1>7
  <2>2. s \in K!KeySlots
    BY <1>0, <1>1, <2>1, Zenon DEF StoreHeld
  <2>3. flash[s0] = k
    BY <1>6, <2>1, <2>2 DEF K!Holders
  <2>4. s0 \in K!Slots /\ k \in Copies(s0)
    BY <1>2, <1>3, <1>5, <2>3
  <2>5. QED
    BY <1>0, <1>1, <2>1, <2>4, Zenon DEF StoreHeld
<1>8. RecordHeld'
  <2>1. slot' \in K!Slots /\ slot' \in K!KeySlots /\ rec' \in granted' \cup Others
    BY <1>2, <1>3, <1>4 DEF k
  <2>2. job'.keys # <<>> /\ rec' = Head(job'.keys)
    BY <1>4 DEF k
  <2>3. QED
    BY <1>4, <1>7, <2>1, <2>2, Zenon DEF RecordHeld, Others, K!Slots, K!KeySlots, K!MfgSlot
<1>9. DeleteHeld'
  BY DEF DeleteHeld
<1>10. BatchHeld'
  <2>1. SUFFICES ASSUME job.kind = "batch" PROVE BatchHeld'
    BY Zenon DEF BatchHeld
  <2>2. \A s \in K!KeySlots : Copies(s)' = Copies(s)
    BY <1>2, <1>5
  <2>3. Useful(job.keys)' = Useful(job.keys)
    BY <2>2 DEF Useful, Named, K!KeySlots
  <2>4. slot' \in Useful(job.keys)
    <3>1. s0 \in K!KeySlots /\ Copies(s0) = {flash[s0]}
      BY <1>2, <1>3, <1>5
    <3>2. QED
      BY <1>1, <1>4, <1>6, <3>1 DEF Useful
  <2>5. Cardinality(Named(job.keys)) <= Cardinality(Useful(job.keys))
    BY <1>0, <2>1, Zenon DEF BatchHeld
  <2>6. job' = job /\ Named(job.keys)' = Named(job.keys)
    BY Zenon DEF Named
  <2>7. QED
    BY <2>3, <2>4, <2>5, <2>6, Zenon DEF BatchHeld
<1>11. QED
  BY <1>5, <1>8, <1>9, <1>10 DEF KeysInv

\* A key is written: its slot holds it, and the rest of a batch still fits.
LEMMA KeyWritten ==
  ASSUME K!KeyStoreAssumption, KeysInv, pc = "verify", job.kind \in {"add", "batch"}, flash[slot] = rec,
         job' = [job EXCEPT !.keys = Tail(@)], pc' = "choose", UNCHANGED <<granted, flash, scratch>>
  PROVE  KeysInv'
<1> DEFINE ks == job.keys
           k == Head(ks)
<1>0. StoreHeld /\ BatchHeld /\ RecordHeld /\ Inflight /\ ~Inflight'
  BY DEF KeysInv, Inflight
<1>1. ks # <<>> /\ rec = k /\ slot \in K!Slots
  BY <1>0 DEF RecordHeld
<1>2. ks \in Seq(Keys) /\ k \in Keys /\ Tail(ks) \in Seq(Keys) /\ k \in Named(ks) /\ Named(ks) = Named(Tail(ks)) \cup {k}
  BY <1>0, <1>1, KeysOfJob
<1>3. job'.kind = job.kind /\ job'.keys = Tail(ks) /\ job' \in [kind : Kinds, keys : Seq(Keys)]
  BY <1>0, <1>2 DEF StoreHeld
<1>4. StoreHeld' /\ \A s \in K!Slots : Copies(s)' = {flash[s]} /\ Copies(s) = {flash[s]}
  BY <1>0, <1>3, HeldIsGranted, SlotsRest
<1>5. RecordHeld' /\ DeleteHeld'
  BY <1>0, <1>3 DEF RecordHeld, DeleteHeld
<1>6. BatchHeld'
  <2>1. SUFFICES ASSUME job.kind = "batch" PROVE BatchHeld'
    BY <1>3, Zenon DEF BatchHeld
  <2> DEFINE N == Named(ks)
             M == Named(Tail(ks))
             U == Useful(ks)
             V == Useful(Tail(ks))
  <2>2. /\ IsFiniteSet(N) /\ IsFiniteSet(M) /\ Cardinality(N) \in Nat /\ Cardinality(M) \in Nat
        /\ M \subseteq Keys
    BY <1>2, NamedFinite
  <2>3. U \subseteq K!KeySlots /\ V \subseteq K!KeySlots
    BY Zenon DEF Useful
  <2>4. IsFiniteSet(U) /\ IsFiniteSet(V) /\ Cardinality(U) \in Nat /\ Cardinality(V) \in Nat
    BY <2>3, UsefulFinite
  <2>5. Cardinality(N) <= Cardinality(U)
    BY <1>0, <2>1, Zenon DEF BatchHeld
  <2>6. Cardinality(M) <= Cardinality(V)
    <3>1. CASE k \in M
      <4>1. M = N
        BY <1>2, <3>1
      <4>2. V = U
        BY <4>1 DEF Useful
      <4>3. QED
        BY <2>5, <4>1, <4>2
    <3>2. CASE k \notin M
      <4>1. Cardinality(N) = Cardinality(M) + 1
        BY <1>2, <2>2, <3>2, FS_AddElement
      <4>2. ASSUME NEW s \in U, s # slot PROVE s \in V
        <5>1. s \in K!KeySlots /\ s \in K!Slots /\ Copies(s) \subseteq N \cup {"blank", "torn"}
          BY SlotsFinite DEF Useful
        <5>2. k \notin Copies(s)
          BY <1>0, <1>1, <1>2, <4>2, <5>1, Zenon DEF RecordHeld
        <5>3. Copies(s) \subseteq M \cup {"blank", "torn"}
          BY <1>2, <5>1, <5>2
        <5>4. QED
          BY <5>1, <5>3 DEF Useful
      <4>3. slot \in U
        BY <1>0, <2>1, Zenon DEF BatchHeld
      <4> HIDE DEF U, V, M, N
      <4>4. IsFiniteSet(U \ {slot}) /\ Cardinality(U \ {slot}) = Cardinality(U) - 1
        BY <2>4, <4>3, FS_RemoveElement
      <4>5. U \ {slot} \subseteq V
        BY <4>2
      <4>6. Cardinality(U \ {slot}) <= Cardinality(V)
        BY <2>4, <4>5, FS_Subset
      <4>7. QED
        BY <2>2, <2>4, <2>5, <4>1, <4>4, <4>6
    <3>3. QED
      BY <3>1, <3>2
  <2>7. Useful(job.keys)' = V
    <3>1. \A s \in K!KeySlots : Copies(s)' = Copies(s)
      BY <1>4, SlotsFinite
    <3>2. QED
      BY <1>3, <3>1 DEF Useful, Named, K!KeySlots
  <2>8. Named(job.keys)' = M
    BY <1>3, Zenon DEF Named
  <2>9. QED
    BY <1>0, <2>6, <2>7, <2>8, Zenon DEF BatchHeld
<1>7. QED
  BY <1>4, <1>5, <1>6 DEF KeysInv

\* A key's deletion begins: only the slot that is blanked holds it.
LEMMA DeletionBegins ==
  ASSUME K!KeyStoreAssumption, KeysInv, pc = "idle", NEW k \in Keys, K!Holders(k) # {},
         job' = [kind |-> "delete", keys |-> <<k>>], K!Write(K!First(K!Holders(k)), "blank"),
         UNCHANGED <<flash, scratch, granted>>
  PROVE  KeysInv'
<1> DEFINE T == K!Holders(k)
           s0 == K!First(T)
<1>0. StoreHeld
  BY DEF KeysInv
<1>1. T \subseteq K!KeySlots /\ K!KeySlots \subseteq K!Slots /\ K!Slots \subseteq Nat
  BY SlotsFinite DEF K!Holders
<1>2. s0 \in T
  BY <1>1, FirstIsOne
<1>3. pc' = "read" /\ slot' = s0 /\ rec' = "blank" /\ Inflight'
  BY WriteInflight
<1>4. job' \in [kind : Kinds, keys : Seq(Keys)] /\ job'.kind = "delete" /\ job'.keys # <<>> /\ Head(job'.keys) = k
  <2>1. <<k>> \in Seq(Keys) /\ Head(<<k>>) = k /\ <<k>> # <<>>
    OBVIOUS
  <2>2. QED
    BY <2>1 DEF Kinds
<1>5. StoreHeld' /\ \A s \in K!Slots : Copies(s)' = {flash[s]} /\ Copies(s) = {flash[s]}
  BY <1>0, <1>3, <1>4, HeldIsGranted, SlotsRest
<1>6. flash[s0] = k /\ s0 \in K!Slots
  BY <1>1, <1>2 DEF K!Holders
<1> HIDE DEF s0, T
<1>7. ASSUME NEW s \in K!Slots, k \in Copies(s)' PROVE s = s0
  <2>1. k \in Copies(s) /\ k \in Copies(s0)
    BY <1>5, <1>6, <1>7
  <2>2. QED
    BY <1>0, <1>6, <2>1, Zenon DEF StoreHeld
<1>8. rec' \notin Keys /\ rec' \in Others
  BY <1>3 DEF K!KeyStoreAssumption, Others
<1>9. RecordHeld'
  <2>1. slot' \in K!Slots /\ rec' \in granted' \cup Others /\ job'.kind \notin {"add", "batch"}
    BY <1>3, <1>4, <1>6, <1>8
  <2>2. QED
    BY <1>8, <2>1, Zenon DEF RecordHeld, Others, K!Slots, K!MfgSlot
<1>10. DeleteHeld'
  BY <1>3, <1>4, <1>7, Zenon DEF DeleteHeld, K!Slots, K!MfgSlot
<1>11. BatchHeld'
  BY <1>4 DEF BatchHeld
<1>12. QED
  BY <1>5, <1>9, <1>10, <1>11 DEF KeysInv

LEMMA OrderKept == ASSUME K!KeyStoreAssumption, KeysInv, K!Order PROVE KeysInv'
<1>0. pc = "idle" /\ UNCHANGED scratch /\ StoreHeld
  BY DEF K!Order, KeysInv
<1>1. ASSUME NEW k \in Keys, job' = [kind |-> "add", keys |-> <<k>>], pc' = "choose",
             UNCHANGED <<flash, granted>>
      PROVE  KeysInv'
  <2>1. job' \in [kind : Kinds, keys : Seq(Keys)] /\ job'.kind = "add"
    BY <1>1 DEF Kinds
  <2>2. StoreHeld'
    BY <1>0, <1>1, <2>1, HeldIsGranted, SlotsRest
  <2>3. ~Inflight'
    BY <1>1 DEF Inflight
  <2>4. QED
    BY <2>1, <2>2, <2>3 DEF KeysInv, RecordHeld, DeleteHeld, BatchHeld
<1>2. ASSUME NEW ks \in Batches, K!Fits(ks), job' = [kind |-> "batch", keys |-> ks], pc' = "choose",
             UNCHANGED <<flash, granted>>
      PROVE  KeysInv'
  <2>0. ks \in Seq(Keys)
    BY DEF K!KeyStoreAssumption
  <2>1. job' \in [kind : Kinds, keys : Seq(Keys)] /\ job'.kind = "batch" /\ job'.keys = ks
    BY <1>2, <2>0 DEF Kinds
  <2>2. StoreHeld' /\ \A s \in K!Slots : Copies(s)' = {flash[s]} /\ Copies(s) = {flash[s]}
    BY <1>0, <1>2, <2>1, HeldIsGranted, SlotsRest
  <2>3. ~Inflight'
    BY <1>2 DEF Inflight
  <2>4. Cardinality(Named(ks)) <= Cardinality(Useful(ks))
    BY <1>0, <1>2, <2>0, BatchEnters
  <2>5. Useful(ks)' = Useful(ks)
    <3>1. \A s \in K!KeySlots : Copies(s)' = Copies(s)
      BY <2>2, SlotsFinite
    <3>2. QED
      BY <3>1 DEF Useful, Named, K!KeySlots
  <2>6. BatchHeld'
    BY <2>1, <2>3, <2>4, <2>5, Zenon DEF BatchHeld, Named, Useful
  <2>7. QED
    BY <2>1, <2>2, <2>3, <2>6 DEF KeysInv, RecordHeld, DeleteHeld
<1>3. ASSUME K!Reply("refused"), UNCHANGED <<flash, granted>> PROVE KeysInv'
  BY <1>0, <1>3, HeldIsGranted, Replied
<1>4. ASSUME job' = [kind |-> "mfg", keys |-> <<>>], K!Write(K!MfgSlot, "mfg"), UNCHANGED <<flash, granted>>
      PROVE  KeysInv'
  <2>1. job' \in [kind : Kinds, keys : Seq(Keys)] /\ job'.kind \notin {"add", "batch", "delete"}
    BY <1>4 DEF Kinds
  <2>2. pc' = "read" /\ slot' \in K!Slots /\ rec' \in Others
    BY <1>4, WriteInflight, SlotsFinite DEF Others
  <2>3. StoreHeld'
    BY <1>0, <1>4, <2>1, <2>2, HeldIsGranted, SlotsRest
  <2>4. QED
    BY <2>1, <2>2, <2>3, PlainRecord
<1>5. ASSUME flash' = K!Blank, granted' = {}, job' = [kind |-> "served", keys |-> <<>>],
             K!Write(K!MidSlot, "mid")
      PROVE  KeysInv'
  <2>1. job' \in [kind : Kinds, keys : Seq(Keys)] /\ job'.kind \notin {"add", "batch", "delete"}
    BY <1>5 DEF Kinds
  <2>2. pc' = "read" /\ slot' \in K!Slots /\ rec' \in Others
    BY <1>5, WriteInflight, SlotsFinite DEF Others
  <2>3. \A s \in K!Slots : Copies(s)' = {"blank"}
    BY <1>5, <2>2 DEF Copies, K!Blank
  <2>4. \A k \in Keys : k # "blank"
    BY DEF K!KeyStoreAssumption
  <2>5. flash' \in [K!Slots -> K!Recs] /\ scratch' \in [K!Slots -> K!Recs] /\ granted' \subseteq Keys
    BY <1>0, <1>5 DEF K!Blank, K!Recs, StoreHeld
  <2>6. pc' \in {"idle", "choose", "read", "erase", "program", "verify"}
    BY <2>2
  <2>7. /\ \A s \in K!Slots : Copies(s)' \subseteq granted' \cup Others
        /\ \A s \in K!Slots, k \in Keys : k \notin Copies(s)'
    BY <2>3, <2>4 DEF Others
  <2>8. StoreHeld'
    BY <2>1, <2>5, <2>6, <2>7, Zenon DEF StoreHeld, K!Slots, K!KeySlots, K!MfgSlot, K!Recs, Others, Kinds
  <2>9. QED
    BY <2>1, <2>2, <2>8, PlainRecord
<1>6. QED
  BY <1>0, <1>1, <1>2, <1>3, <1>4, <1>5, DeletionBegins, Zenon DEF K!Order

LEMMA ChooseKept == ASSUME K!KeyStoreAssumption, KeysInv, K!Choose PROVE KeysInv'
<1>0. pc = "choose" /\ UNCHANGED <<flash, scratch>> /\ StoreHeld
  BY DEF K!Choose, KeysInv
<1>1. CASE job.kind \in {"add", "batch"} /\ job.keys # <<>>
  <2>1. LET k == Head(job.keys)  IN
        IF K!SlotsFor(k) = {} THEN K!Reply("refused") /\ UNCHANGED granted
        ELSE K!Write(K!First(K!SlotsFor(k)), k) /\ granted' = granted \cup {k} /\ UNCHANGED job
    BY <1>1 DEF K!Choose
  <2>2. CASE K!SlotsFor(Head(job.keys)) = {}
    <3>1. K!Reply("refused") /\ UNCHANGED granted
      BY <2>1, <2>2
    <3>2. QED
      BY <1>0, <3>1, HeldIsGranted, Replied
  <2>3. CASE K!SlotsFor(Head(job.keys)) # {}
    BY <1>0, <1>1, <2>1, <2>3, KeyChosen
  <2>4. QED
    BY <2>2, <2>3
<1>2. CASE job.kind \in {"add", "batch"} /\ job.keys = <<>>
  <2>1. K!Reply("served") /\ UNCHANGED granted
    BY <1>2 DEF K!Choose
  <2>2. QED
    BY <1>0, <2>1, HeldIsGranted, Replied
<1>3. CASE job.kind = "served"
  <2>0. job' = [kind |-> "hooked", keys |-> <<>>] /\ K!Write(K!MidSlot, "mid") /\ UNCHANGED granted
    BY <1>3 DEF K!Choose
  <2>1. job' \in [kind : Kinds, keys : Seq(Keys)] /\ job'.kind \notin {"add", "batch", "delete"}
    BY <2>0 DEF Kinds
  <2>2. pc' = "read" /\ slot' \in K!Slots /\ rec' \in Others
    BY <2>0, WriteInflight, SlotsFinite DEF Others
  <2>3. StoreHeld'
    BY <1>0, <2>0, <2>1, <2>2, HeldIsGranted, SlotsRest
  <2>4. QED
    BY <2>1, <2>2, <2>3, PlainRecord
<1>4. CASE job.kind \notin {"add", "batch", "served"}
  <2>0. job' = K!NoJob /\ pc' = "idle" /\ UNCHANGED granted
    BY <1>4 DEF K!Choose
  <2>1. job' \in [kind : Kinds, keys : Seq(Keys)] /\ job'.kind \notin {"add", "batch", "delete"}
    BY <2>0 DEF Kinds, K!NoJob
  <2>2. ~Inflight'
    BY <2>0 DEF Inflight
  <2>3. StoreHeld'
    BY <1>0, <2>0, <2>1, HeldIsGranted, SlotsRest
  <2>4. QED
    BY <2>1, <2>2, <2>3, PlainRecord
<1>5. QED
  BY <1>1, <1>2, <1>3, <1>4

LEMMA VerifyKept == ASSUME K!KeyStoreAssumption, KeysInv, K!Verify PROVE KeysInv'
<1>0. /\ pc = "verify" /\ UNCHANGED <<flash, scratch>> /\ Inflight
      /\ StoreHeld /\ RecordHeld /\ DeleteHeld
  BY DEF K!Verify, KeysInv, Inflight
<1>1. CASE flash[slot] # rec /\ tries > 1
  <2>1. pc' = "read" /\ UNCHANGED <<slot, rec, job, granted>>
    BY <1>1, Zenon DEF K!Verify, K!Again
  <2>2. Inflight'
    BY <2>1 DEF Inflight
  <2>3. \A s : Copies(s)' = Copies(s)
    BY <1>0, <2>1 DEF Copies
  <2>4. flash' \in [K!Slots -> K!Recs] /\ scratch' \in [K!Slots -> K!Recs]
    BY <1>0 DEF StoreHeld
  <2>5. pc' \in {"read", "erase", "program", "verify"}
    BY <2>1
  <2>6. \A s \in K!Slots : Copies(s)' \subseteq
             Copies(s) \cup {"blank", "torn"} \cup {x \in {rec} : Inflight /\ s = slot}
    BY <2>3
  <2>7. Rewriting
    BY <1>0, <2>1, <2>2, <2>4, <2>5, <2>6, StillWriting
  <2>8. QED
    BY <2>7, RewritingKept
<1>2. CASE ~(flash[slot] # rec /\ tries > 1)
  <2> DEFINE ok == flash[slot] = rec
  <2>1. K!Written(ok)
    BY <1>2, Zenon DEF K!Verify
  <2>2. granted' = IF ok /\ job.kind = "delete" THEN granted \ {Head(job.keys)} ELSE granted
    BY <2>1, Zenon DEF K!Written
  <2>3. granted' \subseteq Keys /\ \A s \in K!Slots : flash[s] \in granted' \cup Others
    <3>1. CASE ok /\ job.kind = "delete"
      <4>1. rec = "blank" /\ job.keys # <<>> /\ \A s \in K!Slots : Head(job.keys) \in Copies(s) => s = slot
        BY <1>0, <3>1 DEF DeleteHeld
      <4>2. Head(job.keys) \in Keys
        BY <1>0, <4>1, KeysOfJob
      <4>3. Head(job.keys) # "blank"
        BY <4>2 DEF K!KeyStoreAssumption
      <4>4. ASSUME NEW s \in K!Slots PROVE flash[s] # Head(job.keys)
        <5>1. SUFFICES ASSUME flash[s] = Head(job.keys) PROVE FALSE
          OBVIOUS
        <5>2. Head(job.keys) \in Copies(s)
          BY <5>1 DEF Copies
        <5>3. s = slot
          BY <4>1, <5>2
        <5>4. QED
          BY <3>1, <4>1, <4>3, <5>1, <5>3
      <4>5. granted' = granted \ {Head(job.keys)}
        BY <2>2, <3>1
      <4>6. QED
        BY <1>0, <4>4, <4>5, HeldIsGranted
    <3>2. CASE ~(ok /\ job.kind = "delete")
      BY <1>0, <2>2, <3>2, HeldIsGranted
    <3>3. QED
      BY <3>1, <3>2
  <2>4. CASE job.kind \in {"add", "batch"} /\ ok
    <3>1. job' = [job EXCEPT !.keys = Tail(@)] /\ pc' = "choose"
      BY <2>1, <2>4 DEF K!Written
    <3>2. granted' = granted
      BY <2>2, <2>4
    <3>3. QED
      BY <1>0, <2>4, <3>1, <3>2, KeyWritten
  <2>5. CASE job.kind \in {"mfg", "delete"} /\ ok
    <3>1. K!Reply("served")
      BY <2>1, <2>5 DEF K!Written
    <3>2. QED
      BY <1>0, <2>3, <3>1, Replied
  <2>6. CASE job.kind \in {"add", "batch", "mfg", "delete"} /\ ~ok
    <3>1. K!Reply("refused")
      BY <2>1, <2>6 DEF K!Written
    <3>2. QED
      BY <1>0, <2>3, <3>1, Replied
  <2>7. CASE job.kind \notin {"add", "batch", "mfg", "delete"}
    <3>1. pc' = "choose" /\ UNCHANGED job
      BY <2>1, <2>7 DEF K!Written
    <3>2. job' \in [kind : Kinds, keys : Seq(Keys)] /\ job'.kind \notin {"add", "batch", "delete"}
      BY <1>0, <2>7, <3>1 DEF StoreHeld
    <3>3. ~Inflight'
      BY <3>1 DEF Inflight
    <3>4. StoreHeld'
      BY <1>0, <2>3, <3>1, <3>2, SlotsRest
    <3>5. QED
      BY <3>2, <3>3, <3>4, PlainRecord
  <2> HIDE DEF ok
  <2>8. QED
    BY <2>4, <2>5, <2>6, <2>7
<1>3. QED
  BY <1>1, <1>2

LEMMA KeysKept == ASSUME K!KeyStoreAssumption, KeysInv, K!Next PROVE KeysInv'
<1>1. CASE K!Order
  BY <1>1, OrderKept
<1>2. CASE K!Choose
  BY <1>2, ChooseKept
<1>3. CASE K!Verify
  BY <1>3, VerifyKept
<1>4. CASE K!Read
  BY <1>4, ReadIsRewriting, RewritingKept
<1>5. CASE K!Erase
  BY <1>5, EraseIsRewriting, RewritingKept
<1>6. CASE K!Program
  BY <1>6, ProgramIsRewriting, RewritingKept
<1>7. CASE K!Fail
  BY <1>7, FailIsRewriting, RewritingKept
<1>8. CASE K!Cut
  BY <1>8, CutIsRewriting, RewritingKept
<1>9. QED
  BY <1>1, <1>2, <1>3, <1>4, <1>5, <1>6, <1>7, <1>8, Zenon DEF K!Next

LEMMA KeysSound ==
  ASSUME K!KeyStoreAssumption, KeysInv PROVE K!DeletedStaysOut /\ K!BatchFits
<1>0. StoreHeld /\ BatchHeld
  BY DEF KeysInv
<1>1. K!DeletedStaysOut
  BY <1>0, HeldIsGranted DEF K!DeletedStaysOut, Others
<1>2. ASSUME pc = "choose", job.kind = "batch", job.keys # <<>> PROVE K!SlotsFor(Head(job.keys)) # {}
  <2>1. job.keys \in Seq(Keys) /\ Head(job.keys) \in Named(job.keys)
    BY <1>0, <1>2, KeysOfJob
  <2>2. Cardinality(Named(job.keys)) <= Cardinality(Useful(job.keys))
    BY <1>0, <1>2, Zenon DEF BatchHeld
  <2>3. pc \notin {"erase", "program"}
    BY <1>2
  <2>4. QED
    BY <1>0, <2>1, <2>2, <2>3, OneForEach
<1>3. QED
  BY <1>1, <1>2, Zenon DEF K!BatchFits

-----------------------------------------------------------------------------
(* The rest of the types                                                    *)

\* A transfer's cursor stays in its slot because a payload never goes past
\* the end of a file that fits.
LEMMA OadTypesBegin == ASSUME O!OadAssumption PROVE O!Init => O!TypeOK
<1> SUFFICES ASSUME O!Init PROVE O!TypeOK
  OBVIOUS
<1>1. /\ owner = "none" /\ taken = FALSE /\ file = O!NoFile /\ cursor = 0
      /\ event = "none" /\ dropping = {} /\ acts = 0
  BY Zenon DEF O!Init
<1>2. DOMAIN flash = O!Cells
  BY DEF O!Init
<1>3. file.type \in O!Types /\ cursor \in 0..SlotCells /\ acts \in 0..PhoneActs
  BY <1>1 DEF O!OadAssumption, O!NoFile, O!Types
<1>4. QED
  BY <1>1, <1>2, <1>3 DEF O!TypeOK

OadEvents == {"none", "started", "accepted", "bad", "stored", "flash", "aborted", "ready", "invalid"}

LEMMA OadTypesKept == ASSUME O!OadAssumption, OadInv, O!TypeOK, [O!Next]_(O!vars) PROVE O!TypeOK'
<1>0. /\ owner \in Phones \cup {"none"} /\ taken \in BOOLEAN /\ file.type \in O!Types
      /\ cursor \in 0..SlotCells /\ DOMAIN flash = O!Cells /\ event \in OadEvents
      /\ dropping \subseteq Phones /\ acts \in 0..PhoneActs
  BY DEF O!TypeOK, OadEvents
<1> DEFINE Typed == /\ owner' \in Phones \cup {"none"} /\ taken' \in BOOLEAN /\ file'.type \in O!Types
                    /\ cursor' \in 0..SlotCells /\ DOMAIN flash' = O!Cells /\ event' \in OadEvents
                    /\ dropping' \subseteq Phones /\ acts' \in 0..PhoneActs
<1>1. SUFFICES Typed
  BY DEF O!TypeOK, OadEvents, O!Types, O!Cells
<1>2. O!Happens => acts' \in 0..PhoneActs
  BY <1>0 DEF O!Happens, O!OadAssumption
<1>3. O!Close => owner' \in Phones \cup {"none"} /\ taken' \in BOOLEAN
  BY DEF O!Close
<1>4. ASSUME NEW p \in Phones, O!Refuse(p) PROVE dropping' \subseteq Phones
  BY <1>0, <1>4 DEF O!Refuse
<1>5. {"started", "accepted", "bad", "stored", "flash", "aborted", "ready", "invalid"} \subseteq OadEvents
  BY DEF OadEvents
<1>6. ASSUME NEW p \in Phones, NEW ty \in O!Types, NEW n \in Sizes, O!Metadata(p, ty, n)
      PROVE  Typed
  <2>1. acts' \in 0..PhoneActs /\ UNCHANGED flash
    BY <1>2, <1>6, Zenon DEF O!Metadata
  <2>2. CASE taken
    <3>1. O!Refuse(p) /\ UNCHANGED <<owner, taken, file, cursor, event>>
      BY <1>6, <2>2, Zenon DEF O!Metadata
    <3>2. QED
      BY <1>0, <1>4, <2>1, <3>1
  <2>3. CASE ~taken
    <3> DEFINE f == [type |-> ty, size |-> n, version |-> O!Version + 1]
    <3>1. /\ file' = f /\ cursor' = 0
          /\ \/ owner' = p /\ taken' = TRUE /\ event' = "started" /\ UNCHANGED dropping
             \/ O!Close /\ O!Refuse(p) /\ UNCHANGED event
      BY <1>6, <2>3, Zenon DEF O!Metadata
    <3>2. f.type \in O!Types
      OBVIOUS
    <3>3. cursor' \in 0..SlotCells
      BY <3>1 DEF O!OadAssumption
    <3>4. /\ owner' \in Phones \cup {"none"} /\ taken' \in BOOLEAN /\ event' \in OadEvents
          /\ dropping' \subseteq Phones
      BY <1>0, <1>3, <1>4, <1>5, <3>1
    <3> HIDE DEF f
    <3>5. QED
      BY <1>0, <2>1, <3>1, <3>2, <3>3, <3>4
  <2>4. QED
    BY <1>0, <2>2, <2>3
<1>7. ASSUME NEW p \in Phones, O!Send(p) PROVE Typed
  <2>1. PICK slip \in {0} \cup {i \in {1} : acts < PhoneActs /\ cursor + 1 < sending[p].size} :
          /\ acts' = acts + slip
          /\ IF owner # p THEN O!Refuse(p) /\ UNCHANGED <<owner, taken, file, got, cursor, flash, event, ingest>>
             ELSE O!Payload(p, O!Data(sending[p], cursor + slip))
    BY <1>7, Zenon DEF O!Send
  <2>2. acts' \in 0..PhoneActs
    BY <1>0, <2>1 DEF O!OadAssumption
  <2>3. CASE owner # p
    <3>1. O!Refuse(p) /\ UNCHANGED <<owner, taken, file, cursor, flash, event>>
      BY <2>1, <2>3
    <3>2. QED
      BY <1>0, <1>4, <2>2, <3>1
  <2>4. CASE owner = p
    <3> DEFINE d == O!Data(sending[p], cursor + slip)
               n == O!Less(Len(d), file.size - cursor)
               w == SubSeq(d, 1, n)
    <3>1. O!Payload(p, d) /\ cursor < sending[p].size
      BY <1>7, <2>1, <2>4, Zenon DEF O!Send
    <3>2. Running /\ sending[p].size \in Nat
      BY <2>4, Zenon DEF OadInv, Sent, O!OadAssumption
    <3>3. slip \in {0, 1} /\ cursor + slip < sending[p].size
      BY <1>0, <2>1, <3>1
    <3>4. n \in 0..Chunk /\ cursor + n <= file.size
      BY <3>2, <3>3, PayloadFits
    <3>5. /\ flash' = O!Program(O!Erase(flash, Address, n), Address, w)
          /\ cursor' = cursor + n /\ UNCHANGED <<file, dropping>>
          /\ \/ UNCHANGED <<owner, taken, event>>
             \/ O!Close /\ event' = O!Verdict(file, got \o w)
      BY <3>1, Zenon DEF O!Payload, Address
    <3> HIDE DEF d, n, w
    <3>6. cursor' \in 0..SlotCells
      BY <3>2, <3>4, <3>5 DEF Running, O!OadAssumption
    <3>7. DOMAIN flash' = O!Cells
      BY <3>5 DEF O!Program
    <3>8. O!Verdict(file, got \o w) \in OadEvents
      BY <1>5 DEF O!Verdict
    <3>9. owner' \in Phones \cup {"none"} /\ taken' \in BOOLEAN /\ event' \in OadEvents
      BY <1>0, <1>3, <3>5, <3>8, Zenon
    <3>10. QED
      BY <1>0, <2>2, <3>5, <3>6, <3>7, <3>9
  <2>5. QED
    BY <2>3, <2>4
<1>8. ASSUME NEW p \in Phones, O!OpenFails(p) PROVE Typed
  <2>1. /\ O!Close /\ O!Refuse(p) /\ event' = "flash" /\ O!Happens
        /\ UNCHANGED <<file, cursor, flash>>
    BY <1>8, Zenon DEF O!OpenFails
  <2>2. QED
    BY <1>0, <1>2, <1>3, <1>4, <1>5, <2>1
<1>9. ASSUME NEW p \in Phones, O!LinkEnds(p), acts' \in 0..PhoneActs PROVE Typed
  <2>1. /\ dropping' = dropping \ {p} /\ UNCHANGED <<file, cursor, flash>>
        /\ (O!Close /\ event' = "aborted") \/ UNCHANGED <<owner, taken, event>>
    BY <1>9, Zenon DEF O!LinkEnds
  <2>2. QED
    BY <1>0, <1>3, <1>5, <1>9, <2>1
<1>10. ASSUME NEW p \in Phones, O!Dropped(p) \/ O!Leaves(p) PROVE Typed
  <2>1. O!LinkEnds(p) /\ (UNCHANGED acts \/ O!Happens)
    BY <1>10, Zenon DEF O!Dropped, O!Leaves
  <2>2. acts' \in 0..PhoneActs
    BY <1>0, <1>2, <2>1
  <2>3. QED
    BY <1>9, <2>1, <2>2
<1>11. CASE O!Expire
  <2>1. O!Close /\ UNCHANGED <<file, cursor, flash, event, dropping, acts>>
    BY <1>11, Zenon DEF O!Expire
  <2>2. QED
    BY <1>0, <1>3, <2>1
<1>12. CASE O!Ingest
  <2>1. event' \in {"ready", "invalid"} /\ UNCHANGED <<owner, taken, file, cursor, flash, dropping, acts>>
    BY <1>12 DEF O!Ingest
  <2>2. QED
    BY <1>0, <1>5, <2>1
<1>13. CASE UNCHANGED O!vars
  <2>1. UNCHANGED <<owner, taken, file, cursor, flash, event, dropping, acts>>
    BY <1>13, Zenon DEF O!vars
  <2>2. QED
    BY <1>0, <2>1
<1>14. QED
  BY <1>6, <1>7, <1>8, <1>10, <1>11, <1>12, <1>13, Zenon DEF O!Next

\* The receiver hands over no message twice: what is on the line comes from
\* the sender's steps after the one of the last block that was handed over,
\* or repeats it, and two numbers that follow each other differ.
Last == Rank(got[Len(got)])
Handed ==
    got # <<>> => /\ Len(got) <= Last /\ Last # Y!Eot /\ Last <= at
                  /\ \A i \in DOMAIN line : line[i].data = "noise" \/ Last <= Rank(line[i])

LEMMA RankIsStep ==
  ASSUME Y!YmodemAssumption, NEW m \in Packets
  PROVE  Rank(m) \in 0..Y!End /\ (m.data # "end" => Rank(m) = m.n) /\ (m.data = "end" => m.n = 0 /\ Rank(m) = Y!End)
  BY DEF Y!YmodemAssumption, Rank, Packets, Y!End, Y!Eot

LEMMA NextDiffers ==
  ASSUME NEW w \in Nat \ {0, 1}, NEW a \in Nat PROVE a % w # (a + 1) % w
<1> DEFINE b == a + 1
           i == a \div w
           j == b \div w
           r == a % w
           t == b % w
<1>1. a = w * i + r /\ i \in Nat /\ r \in 0..w - 1
  BY Divided
<1>2. b = w * j + t /\ j \in Nat /\ t \in 0..w - 1
  <2>1. b \in Nat
    OBVIOUS
  <2> HIDE DEF b
  <2>2. QED
    BY <2>1, Divided
<1>3. SUFFICES ASSUME r = t PROVE FALSE
  OBVIOUS
<1>4. b = a + 1
  OBVIOUS
<1> HIDE DEF b, i, j, r, t
<1>5. w * i \in Nat /\ w * j \in Nat
  BY <1>1, <1>2, SMTT(20)
<1>6. w * j = w * i + 1
  BY <1>1, <1>2, <1>3, <1>4, <1>5
<1>7. CASE j <= i
  <2>1. w * j <= w * i
    BY <1>1, <1>2, <1>7, ProductGrows
  <2>2. QED
    BY <1>5, <1>6, <2>1
<1>8. CASE i + 1 <= j
  <2>1. w * (i + 1) <= w * j
    BY <1>1, <1>2, <1>8, ProductGrows
  <2>2. w * (i + 1) = w * i + w
    BY <1>1, SMTT(20)
  <2>3. QED
    BY <1>5, <1>6, <2>1, <2>2
<1>9. QED
  BY <1>1, <1>2, <1>7, <1>8

LEMMA SerialTypesBegin == ASSUME Y!YmodemAssumption PROVE Y!Init => Handed /\ Y!TypeOK
<1> SUFFICES ASSUME Y!Init PROVE Handed /\ Y!TypeOK
  OBVIOUS
<1>1. /\ seq = 0 /\ retries = 0 /\ started = FALSE /\ got = <<>> /\ result = "none" /\ pend = FALSE
      /\ at = 0 /\ resends = 0 /\ faults = 0
  BY DEF Y!Init
<1>2. Len(got) = 0
  BY <1>1
<1>3. /\ seq \in 0..Y!End /\ retries \in 0..MaxRetries /\ Len(got) <= Y!Eot
      /\ at \in 0..Y!Done /\ resends \in 0..MaxResends + 1 /\ faults \in 0..LineFaults
  BY <1>1, <1>2 DEF Y!YmodemAssumption, Y!End, Y!Eot, Y!Done
<1>4. started \in BOOLEAN /\ result \in {"none", "ok", "error"} /\ pend \in BOOLEAN
  BY <1>1
<1>5. QED
  BY <1>1, <1>3, <1>4 DEF Handed, Y!TypeOK

\* A block that is taken comes from a later step than the last one.
LEMMA TakenIsLater ==
  ASSUME Y!YmodemAssumption, SerialInv, Handed, NEW b \in Packets, b.n # Y!Eot,
         seq # 0, b.n % Wrap = seq % Wrap, got # <<>> => Last <= Rank(b)
  PROVE  Len(got) + 1 <= Rank(b) /\ Len(got) + 1 <= Y!Eot /\ Rank(b) # Y!Eot
<1>0. /\ Wrap \in Nat \ {0, 1} /\ NBlocks \in Nat \ {0}
      /\ seq = Len(got) + 1 /\ got \in Seq(Packets) /\ Len(got) \in Nat
  BY DEF Y!YmodemAssumption, SerialInv
<1>1. /\ Rank(b) \in 0..Y!End /\ b.n \in Nat
      /\ b.data # "end" => Rank(b) = b.n
      /\ b.data = "end" => b.n = 0 /\ Rank(b) = Y!End
  <2>1. b.n \in Nat
    BY <1>0 DEF Packets, Y!Eot
  <2>2. QED
    BY <2>1, RankIsStep
<1>2. Rank(b) # Y!Eot
  BY <1>0, <1>1 DEF Y!End, Y!Eot
<1>3. CASE got = <<>>
  <2>1. Len(got) = 0 /\ seq = 1
    BY <1>0, <1>3
  <2>2. 0 % Wrap # (0 + 1) % Wrap
    BY <1>0, NextDiffers
  <2>3. b.n # 0
    BY <2>1, <2>2
  <2>4. QED
    BY <1>0, <1>1, <1>2, <2>1, <2>3 DEF Y!Eot
<1>4. CASE got # <<>>
  <2> DEFINE n == Len(got)
             l == got[n]
  <2>1. n \in Nat \ {0} /\ n \in DOMAIN got /\ l \in Packets
    BY <1>0, <1>4
  <2>2. l.n % Wrap = n % Wrap
    BY <2>1 DEF SerialInv, Y!InOrder
  <2>3. n % Wrap # (n + 1) % Wrap
    BY <1>0, <2>1, NextDiffers
  <2>4. b.n # l.n
    BY <1>0, <2>2, <2>3
  <2>5. n <= Last /\ Last # Y!Eot /\ Last <= Rank(b)
    BY <1>4 DEF Handed
  <2>6. /\ Last \in 0..Y!End
        /\ l.data # "end" => Last = l.n
        /\ l.data = "end" => l.n = 0 /\ Last = Y!End
    BY <2>1, RankIsStep DEF Last
  <2> HIDE DEF n, l
  <2>7. Last # Rank(b)
    <3>1. CASE b.data = "end" /\ l.data = "end"
      BY <1>1, <2>4, <2>6, <3>1
    <3>2. CASE b.data = "end" /\ l.data # "end"
      <4>1. l.n # Y!End
        BY <1>0, <2>1, <3>2 DEF Packets, Y!End, Y!Eot
      <4>2. QED
        BY <1>1, <2>6, <3>2, <4>1
    <3>3. CASE b.data # "end" /\ l.data = "end"
      <4>1. b.n # Y!End
        BY <1>0, <3>3 DEF Packets, Y!End, Y!Eot
      <4>2. QED
        BY <1>1, <2>6, <3>3, <4>1
    <3>4. CASE b.data # "end" /\ l.data # "end"
      BY <1>1, <2>4, <2>6, <3>4
    <3>5. QED
      BY <3>1, <3>2, <3>3, <3>4
  <2> DEFINE x == Last
             y == Rank(b)
  <2>8. /\ n \in Nat /\ x \in 0..NBlocks + 2 /\ y \in 0..NBlocks + 2 /\ x # NBlocks + 1 /\ y # NBlocks + 1
        /\ n <= x /\ x <= y /\ x # y
    BY <1>1, <1>2, <2>1, <2>5, <2>6, <2>7 DEF Y!End, Y!Eot
  <2> HIDE DEF x, y
  <2>9. n + 1 <= y /\ n + 1 <= NBlocks + 1
    BY <1>0, <2>8
  <2>10. QED
    BY <1>2, <2>9 DEF n, y, Y!Eot
<1>5. QED
  BY <1>3, <1>4

\* A message goes to the end of the line.
LEMMA HandedSends ==
  ASSUME Y!YmodemAssumption, SerialInv, Handed, NEW i \in 0..Y!End, i >= at,
         NEW m \in Packets, m.data = "noise" \/ Rank(m) = i,
         line' = Append(line, m) \/ (line = <<>> /\ line' = <<m>>), at' = i, UNCHANGED got
  PROVE  Handed'
<1>1. line \in Seq(Packets) /\ got \in Seq(Packets) /\ at \in 0..Y!Done
  BY DEF SerialInv
<1>2. ASSUME NEW k \in DOMAIN line' PROVE line'[k] = m \/ (k \in DOMAIN line /\ line'[k] = line[k])
  <2>1. CASE line' = Append(line, m)
    BY <1>1, <1>2, <2>1
  <2>2. CASE line = <<>> /\ line' = <<m>>
    BY <1>2, <2>2
  <2>3. QED
    BY <2>1, <2>2
<1>3. SUFFICES ASSUME got # <<>>
               PROVE  /\ Len(got) <= Last /\ Last # Y!Eot /\ Last <= i
                      /\ \A k \in DOMAIN line' : line'[k].data = "noise" \/ Last <= Rank(line'[k])
  BY DEF Handed, Last, Rank, Y!Eot, Y!End
<1>4. /\ Len(got) <= Last /\ Last # Y!Eot /\ Last <= at
      /\ \A k \in DOMAIN line : line[k].data = "noise" \/ Last <= Rank(line[k])
  BY <1>3 DEF Handed
<1>5. Last \in Nat
  <2>1. got[Len(got)] \in Packets
    BY <1>1, <1>3
  <2>2. QED
    BY <2>1, RankIsStep DEF Last
<1>6. Last <= i
  BY <1>1, <1>4, <1>5
<1>7. QED
  BY <1>2, <1>4, <1>6

\* The receiver takes the first message and hands over none.
LEMMA HandedHears ==
  ASSUME Y!YmodemAssumption, SerialInv, Handed, line # <<>>, line' = Tail(line), UNCHANGED <<got, at>>
  PROVE  Handed'
<1>1. line \in Seq(Packets)
  BY DEF SerialInv
<1>2. \A k \in DOMAIN line' : k + 1 \in DOMAIN line /\ line'[k] = line[k + 1]
  BY <1>1
<1>3. QED
  BY <1>2 DEF Handed, Last, Rank, Y!Eot, Y!End

\* It hands over what it takes.
LEMMA HandedTakes ==
  ASSUME Y!YmodemAssumption, SerialInv, Handed, line # <<>>, line' = Tail(line),
         Head(line).data # "noise", Head(line).n # Y!Eot,
         seq # 0, Head(line).n % Wrap = seq % Wrap, got' = Append(got, Head(line)), UNCHANGED at
  PROVE  Handed' /\ Len(got') <= Y!Eot /\ Len(got') = Len(got) + 1
<1> DEFINE b == Head(line)
           rest == Tail(line)
<1>1. /\ b \in Packets /\ Rank(b) <= at
      /\ \A i \in DOMAIN rest : rest[i].data = "noise" \/ Rank(b) <= Rank(rest[i])
  BY LineShrinks
<1>2. got # <<>> => Last <= Rank(b)
  <2>1. line \in Seq(Packets) /\ 1 \in DOMAIN line /\ line[1] = b
    BY DEF SerialInv
  <2>2. QED
    BY <2>1, Zenon DEF Handed
<1> HIDE DEF b, rest
<1>3. Len(got) + 1 <= Rank(b) /\ Len(got) + 1 <= Y!Eot /\ Rank(b) # Y!Eot
  BY <1>1, <1>2, TakenIsLater DEF b
<1>4. got' = Append(got, b) /\ got \in Seq(Packets)
  BY DEF SerialInv, b
<1>5. Len(got') = Len(got) + 1 /\ got'[Len(got')] = b
  BY <1>1, <1>4
<1>6. Last' = Rank(b)
  BY <1>5, Zenon DEF Last, Rank, Y!End
<1>7. /\ Len(got') <= Last' /\ Last' # Y!Eot /\ Last' <= at'
      /\ \A k \in DOMAIN line' : line'[k].data = "noise" \/ Last' <= Rank(line'[k])
  BY <1>1, <1>3, <1>5, <1>6 DEF rest
<1>8. QED
  BY <1>3, <1>5, <1>7 DEF Handed, Last, Rank, Y!Eot, Y!End

Heard == /\ seq \in 0..Y!End /\ retries \in 0..MaxRetries /\ started \in BOOLEAN
         /\ result \in {"none", "ok", "error"} /\ Len(got) <= Y!Eot

\* Silence and noise are counted up to the last retry.
LEMMA RetryTyped ==
  ASSUME Y!YmodemAssumption, Heard, Y!Retry PROVE Heard' /\ UNCHANGED got
<1>0. retries \in 0..MaxRetries /\ MaxRetries \in Nat
  BY DEF Heard, Y!YmodemAssumption
<1>1. CASE Y!Over("error")
  <2>1. result' = "error" /\ UNCHANGED <<seq, retries, started, got>>
    BY <1>1, Zenon DEF Y!Over
  <2>2. QED
    BY <2>1 DEF Heard, Y!End, Y!Eot
<1>2. CASE /\ ~(started /\ retries >= MaxRetries)
           /\ retries' = IF started THEN retries + 1 ELSE retries
           /\ UNCHANGED <<seq, started, got, result>>
  <2>1. started => retries < MaxRetries
    BY <1>0, <1>2
  <2>2. (retries' = retries + 1 /\ retries < MaxRetries) \/ retries' = retries
    BY <1>2, <2>1, Zenon
  <2>3. retries' \in 0..MaxRetries
    BY <1>0, <2>2
  <2>4. QED
    BY <1>2, <2>3 DEF Heard, Y!End, Y!Eot
<1>3. QED
  BY <1>1, <1>2, Zenon DEF Y!Retry

\* The receiver's own variables, whatever it hears.
LEMMA HeardKept ==
  ASSUME Y!YmodemAssumption, SerialInv, Handed, Y!TypeOK, Y!Hear
  PROVE  Handed' /\ Heard'
<1> DEFINE b == Head(line)
<1>0. Heard /\ 0 \in 0..MaxRetries /\ 0 \in 0..Y!End /\ 1 \in 0..Y!End
  BY DEF Y!YmodemAssumption, Heard, Y!TypeOK, Y!End
<1>1. line # <<>> /\ line' = Tail(line) /\ UNCHANGED at
  BY Zenon DEF Y!Hear
<1>2. ASSUME UNCHANGED got PROVE Handed' /\ Len(got') <= Y!Eot
  BY <1>0, <1>1, <1>2, HandedHears DEF Heard
<1> HIDE DEF b
<1>3. CASE b.data = "noise" /\ Y!Retry
  BY <1>0, <1>2, <1>3, RetryTyped DEF Heard
<1>4. CASE Y!HearEot
  <2>1. seq' = 0 /\ retries' = 0 /\ UNCHANGED <<started, got, result>>
    BY <1>4, Zenon DEF Y!HearEot
  <2>2. QED
    BY <1>0, <1>2, <2>1 DEF Heard, Y!End, Y!Eot
<1>5. CASE b.data # "noise" /\ b.n # Y!Eot /\ Y!Block(b)
  <2>1. CASE Y!HearOther(b)
    <3>1. retries' = 0 /\ UNCHANGED <<seq, started, got, result>>
      BY <2>1, Zenon DEF Y!HearOther
    <3>2. QED
      BY <1>0, <1>2, <3>1 DEF Heard, Y!End, Y!Eot
  <2>2. CASE Y!HearEnd
    <3>1. result' = "ok" /\ UNCHANGED <<seq, retries, started, got>>
      BY <2>2, Zenon DEF Y!HearEnd, Y!Over
    <3>2. QED
      BY <1>0, <1>2, <3>1 DEF Heard, Y!End, Y!Eot
  <2>3. CASE Y!HearName
    <3>1. seq' = 1 /\ retries' = 0 /\ started' = TRUE /\ UNCHANGED <<got, result>>
      BY <2>3, Zenon DEF Y!HearName
    <3>2. started' \in BOOLEAN
      BY <3>1
    <3>3. QED
      BY <1>0, <1>2, <3>1, <3>2 DEF Heard, Y!End, Y!Eot
  <2>4. CASE seq # 0 /\ b.n % Wrap = seq % Wrap /\ Y!HearData(b)
    <3>1. /\ got' = Append(got, b) /\ seq' = seq + 1 /\ retries' = 0 /\ started' = TRUE
          /\ UNCHANGED result
      BY <2>4, Zenon DEF Y!HearData
    <3>2. Handed' /\ Len(got') <= Y!Eot /\ Len(got') = Len(got) + 1
      BY <1>1, <1>5, <2>4, <3>1, HandedTakes DEF b
    <3>3. seq = Len(got) + 1 /\ Len(got) \in Nat /\ NBlocks \in Nat
      BY <2>4 DEF SerialInv, Y!YmodemAssumption
    <3>4. seq' \in 0..Y!End
      BY <3>1, <3>2, <3>3 DEF Y!End, Y!Eot
    <3>5. started' \in BOOLEAN
      BY <3>1
    <3>6. QED
      BY <1>0, <3>1, <3>2, <3>4, <3>5 DEF Heard, Y!End, Y!Eot
  <2>5. QED
    BY <1>5, <2>1, <2>2, <2>3, <2>4, Zenon DEF Y!Block, Y!Unawaited
<1>6. QED
  BY <1>3, <1>4, <1>5, Zenon DEF Y!Hear, b

LEMMA SerialTypesKept ==
  ASSUME Y!YmodemAssumption, SerialInv, Handed, Y!TypeOK, [Y!Next]_(Y!vars)
  PROVE  Handed' /\ Y!TypeOK'
<1> DEFINE Sends == at \in 0..Y!Done /\ resends \in 0..MaxResends + 1 /\ faults \in 0..LineFaults
<1>0. /\ Heard /\ pend \in BOOLEAN /\ Sends
      /\ NBlocks \in Nat /\ MaxResends \in Nat /\ LineFaults \in Nat
  BY DEF Y!TypeOK, Heard, Y!YmodemAssumption
<1>1. SUFFICES Handed' /\ Heard' /\ pend' \in BOOLEAN /\ Sends'
  BY DEF Y!TypeOK, Heard, Y!End, Y!Eot, Y!Done
<1>2. ASSUME UNCHANGED <<got, line, at>> PROVE Handed'
  BY <1>2, Zenon DEF Handed, Last, Rank, Y!Eot, Y!End
<1>3. ASSUME UNCHANGED <<seq, retries, started, got, result>> PROVE Heard'
  BY <1>0, <1>3, Zenon DEF Heard, Y!Eot, Y!End
<1>4. ASSUME UNCHANGED <<at, resends, faults>> PROVE Sends'
  BY <1>0, <1>4, Zenon DEF Y!Done
<1>5. ASSUME Y!Quiet PROVE Heard' /\ pend' \in BOOLEAN /\ UNCHANGED got
  BY <1>0, <1>3, <1>5, Zenon DEF Y!Quiet
<1>6. at' \in 0..Y!Done /\ resends' \in 0..MaxResends + 1 /\ faults' \in 0..LineFaults => Sends'
  BY DEF Y!Done
<1> HIDE DEF Sends
<1>7. CASE Y!Hear
  BY <1>0, <1>4, <1>7, HeardKept, Zenon DEF Y!Hear
<1>8. CASE Y!HearNothing
  <2>1. Y!Retry /\ UNCHANGED <<pend, line, at, resends, faults>>
    BY <1>8, Zenon DEF Y!HearNothing
  <2>2. UNCHANGED got /\ Heard'
    BY <1>0, <2>1, RetryTyped
  <2>3. QED
    BY <1>0, <1>2, <1>4, <2>1, <2>2, Zenon
<1>9. CASE Y!Update
  <2>1. pend' = TRUE /\ UNCHANGED <<seq, retries, started, got, result, line, at, resends, faults>>
    BY <1>9, Zenon DEF Y!Update
  <2>2. pend' \in BOOLEAN
    BY <2>1
  <2>3. QED
    BY <1>2, <1>3, <1>4, <2>1, <2>2, Zenon
<1>10. ASSUME NEW i \in 0..Y!End, Y!Transmit(i), i >= at, at' = i, UNCHANGED got
       PROVE  Handed' /\ faults' \in 0..LineFaults
  <2>1. PICK m \in Y!Fates(Y!Message(i)) :
          /\ m = Y!Message(i) \/ (m.data = "bad" => i \in 1..NBlocks)
          /\ line' = Append(line, m)
          /\ faults' = IF m = Y!Message(i) THEN faults ELSE faults + 1
    BY <1>10, Zenon DEF Y!Transmit
  <2>2. m \in Packets /\ (m.data = "noise" \/ Rank(m) = i)
    BY <2>1, SentPacket
  <2>3. Handed'
    BY <1>10, <2>1, <2>2, HandedSends
  <2>4. m = Y!Message(i) \/ faults < LineFaults
    BY DEF Y!Fates
  <2>5. faults \in 0..LineFaults
    BY <1>0 DEF Sends
  <2>6. faults' \in 0..LineFaults
    BY <1>0, <2>1, <2>4, <2>5
  <2>7. QED
    BY <2>3, <2>6
<1>11. CASE Y!Start
  <2>1. Y!Transmit(0) /\ at = 0 /\ at' = 0 /\ resends' = 1 /\ Y!Quiet
    BY <1>11 DEF Y!Start
  <2>2. 0 \in 0..Y!End /\ 0 >= at /\ at' \in 0..Y!Done /\ resends' \in 0..MaxResends + 1
    BY <1>0, <2>1 DEF Y!End, Y!Done
  <2>3. QED
    BY <1>5, <1>6, <1>10, <2>1, <2>2
<1>12. CASE Y!Acked
  <2>1. /\ at < Y!Done /\ at' = at + 1 /\ resends' = 1 /\ Y!Quiet
        /\ (at = Y!End /\ UNCHANGED <<line, faults>>) \/ (at # Y!End /\ Y!Transmit(at + 1))
    BY <1>12, Zenon DEF Y!Acked
  <2>2. at \in 0..Y!End /\ at' \in 0..Y!Done /\ resends' \in 0..MaxResends + 1
    BY <1>0, <2>1 DEF Y!End, Y!Done, Sends
  <2>3. CASE at = Y!End /\ UNCHANGED <<line, faults>>
    <3>1. Handed'
      <4>1. got # <<>> => Last \in Nat
        <5>1. got \in Seq(Packets)
          BY DEF SerialInv
        <5>2. ASSUME got # <<>> PROVE got[Len(got)] \in Packets
          BY <5>1, <5>2
        <5>3. QED
          BY <5>2, RankIsStep DEF Last
      <4>2. UNCHANGED <<got, line>> /\ at' = at + 1 /\ at \in Nat
        BY <1>5, <2>1, <2>2, <2>3
      <4>3. UNCHANGED Last
        BY <4>2, Zenon DEF Last, Rank, Y!End
      <4>4. QED
        BY <4>1, <4>2, <4>3 DEF Handed, Rank, Y!End, Y!Eot
    <3>2. faults' \in 0..LineFaults
      BY <1>0, <2>3 DEF Sends
    <3>3. QED
      BY <1>5, <1>6, <2>1, <2>2, <3>1, <3>2
  <2>4. CASE at # Y!End /\ Y!Transmit(at + 1)
    <3>1. at + 1 \in 0..Y!End /\ at + 1 >= at
      BY <1>0, <2>2, <2>4 DEF Y!End
    <3>2. Handed' /\ faults' \in 0..LineFaults
      BY <1>5, <1>10, <2>1, <2>4, <3>1
    <3>3. QED
      BY <1>5, <1>6, <2>1, <2>2, <3>2
  <2>5. QED
    BY <2>1, <2>3, <2>4
<1>13. CASE Y!Resend
  <2>1. /\ at < Y!Done /\ resends \in 1..MaxResends /\ line = <<>> /\ line' = <<Y!Message(at)>>
        /\ resends' = resends + 1 /\ UNCHANGED at /\ Y!Quiet
        /\ UNCHANGED faults \/ (faults < LineFaults /\ faults' = faults + 1)
    BY <1>13, Zenon DEF Y!Resend
  <2>2. /\ at \in 0..Y!End /\ at >= at /\ at' \in 0..Y!Done /\ resends' \in 0..MaxResends + 1
        /\ faults' \in 0..LineFaults
    BY <1>0, <2>1 DEF Y!End, Y!Done, Sends
  <2>3. Y!Message(at) \in Packets /\ Rank(Y!Message(at)) = at
    BY <1>0, <2>2 DEF Y!Message, Y!Good, Packets, Rank, Y!End, Y!Eot
  <2>4. Handed'
    BY <1>5, <2>1, <2>2, <2>3, HandedSends
  <2>5. QED
    BY <1>5, <1>6, <2>1, <2>2, <2>4
<1>14. CASE Y!LoseAck
  <2>1. faults < LineFaults /\ faults' = faults + 1 /\ UNCHANGED <<line, at, resends>> /\ Y!Quiet
    BY <1>14, Zenon DEF Y!LoseAck
  <2>2. at' \in 0..Y!Done /\ resends' \in 0..MaxResends + 1 /\ faults' \in 0..LineFaults
    BY <1>0, <2>1 DEF Sends
  <2>3. QED
    BY <1>2, <1>5, <1>6, <2>1, <2>2
<1>15. CASE UNCHANGED Y!vars
  <2>1. UNCHANGED <<seq, retries, started, got, result, pend, line, at, resends, faults>>
    BY <1>15, Zenon DEF Y!vars
  <2>2. QED
    BY <1>0, <1>2, <1>3, <1>4, <2>1, Zenon
<1>16. QED
  BY <1>7, <1>8, <1>9, <1>11, <1>12, <1>13, <1>14, <1>15, Zenon DEF Y!Next

\* What is written, also while nothing is, and how far.
RecordTyped == slot \in K!Slots /\ rec \in K!Recs /\ tries \in 0..Tries
Paged == page \in 0..K!LastPage + 1 /\ (pc = "program" => page <= K!LastPage)
KeysMore == /\ RecordTyped /\ Paged /\ worn \in Wear
            /\ faults \in 0..FlashFaults /\ orders \in 0..MaxOrders

LEMMA PagesAreSome == ASSUME K!KeyStoreAssumption PROVE K!LastPage \in Nat
<1>1. K!MfgSlot \in Nat /\ Page \in Nat \ {0}
  BY DEF K!KeyStoreAssumption, K!MfgSlot
<1>2. K!MfgSlot \div Page \in Nat
  BY <1>1, Divided
<1>3. QED
  BY <1>2 DEF K!LastPage

LEMMA KeysMoreBegins == ASSUME K!KeyStoreAssumption PROVE K!Init => KeysMore
<1> SUFFICES ASSUME K!Init PROVE KeysMore
  OBVIOUS
<1>1. /\ worn \in Wear /\ pc = "idle" /\ page = 0 /\ tries = 0 /\ slot = 0 /\ rec = "blank"
      /\ faults = 0 /\ orders = 0
  BY Zenon DEF K!Init
<1>2. RecordTyped
  BY <1>1 DEF RecordTyped, K!Slots, K!MfgSlot, K!Recs, K!KeyStoreAssumption
<1>3. Paged
  BY <1>1, PagesAreSome DEF Paged
<1>4. faults \in 0..FlashFaults /\ orders \in 0..MaxOrders
  BY <1>1 DEF K!KeyStoreAssumption
<1>5. QED
  BY <1>1, <1>2, <1>3, <1>4 DEF KeysMore

\* A record is chosen, or what was chosen stays.
LEMMA WriteTyped ==
  ASSUME K!KeyStoreAssumption, Paged, NEW s \in K!Slots, NEW r \in K!Recs, K!Write(s, r)
  PROVE  RecordTyped' /\ Paged'
<1>1. slot' = s /\ rec' = r /\ tries' = Tries /\ pc' = "read" /\ UNCHANGED page
  BY Zenon DEF K!Write
<1>2. RecordTyped'
  BY <1>1 DEF RecordTyped, K!Slots, K!MfgSlot, K!Recs, K!KeyStoreAssumption
<1>3. Paged'
  BY <1>1 DEF Paged, K!LastPage, K!MfgSlot
<1>4. QED
  BY <1>2, <1>3

LEMMA WritingRests ==
  ASSUME RecordTyped, Paged, UNCHANGED <<page, tries, slot, rec>>, pc' # "program" \/ UNCHANGED pc
  PROVE  RecordTyped' /\ Paged'
<1>1. RecordTyped'
  BY Zenon DEF RecordTyped, K!Slots, K!MfgSlot, K!Recs
<1>2. Paged'
  BY DEF Paged, K!LastPage, K!MfgSlot
<1>3. QED
  BY <1>1, <1>2

LEMMA SlotsOfStore ==
  ASSUME K!KeyStoreAssumption
  PROVE  /\ \A k \in Keys : K!Holders(k) # {} => K!First(K!Holders(k)) \in K!Slots
         /\ \A k \in Keys : K!SlotsFor(k) # {} => K!First(K!SlotsFor(k)) \in K!Slots
         /\ K!MidSlot \in K!Slots /\ K!MfgSlot \in K!Slots
         /\ {"mid", "mfg", "blank"} \subseteq K!Recs /\ Keys \subseteq K!Recs
<1>1. K!KeySlots \subseteq K!Slots /\ K!KeySlots \subseteq Nat
  BY SlotsFinite
<1>2. \A T \in SUBSET K!KeySlots : T # {} => K!First(T) \in K!Slots
  BY <1>1, FirstIsOne
<1>3. \A k \in Keys : K!Holders(k) \subseteq K!KeySlots /\ K!SlotsFor(k) \subseteq K!KeySlots
  BY DEF K!Holders, K!SlotsFor, K!FreeSlots
<1>4. {"mid", "mfg", "blank"} \subseteq K!Recs /\ Keys \subseteq K!Recs
  BY DEF K!Recs
<1>5. QED
  BY <1>2, <1>3, <1>4, SlotsFinite

LEMMA ReplyTyped ==
  ASSUME K!KeyStoreAssumption, RecordTyped, Paged, NEW kind, K!Reply(kind)
  PROVE  RecordTyped' /\ Paged'
<1>1. CASE pc' = "choose" /\ UNCHANGED K!writing
  BY <1>1, WritingRests DEF K!writing
<1>2. CASE K!Write(K!MidSlot, "mid")
  BY <1>2, WriteTyped, SlotsOfStore
<1>3. QED
  BY <1>1, <1>2, Zenon DEF K!Reply

LEMMA KeysMoreKept ==
  ASSUME K!KeyStoreAssumption, KeysInv, KeysMore, [K!Next]_(K!vars) PROVE KeysMore'
<1>0. /\ RecordTyped /\ Paged /\ worn \in Wear /\ faults \in 0..FlashFaults /\ orders \in 0..MaxOrders
      /\ FlashFaults \in Nat /\ MaxOrders \in Nat /\ StoreHeld
  BY DEF KeysMore, KeysInv, K!KeyStoreAssumption
<1>1. SUFFICES /\ RecordTyped' /\ Paged'
               /\ worn' = worn /\ faults' \in 0..FlashFaults /\ orders' \in 0..MaxOrders
  BY <1>0, Zenon DEF KeysMore
<1>2. UNCHANGED faults \/ (faults < FlashFaults /\ faults' = faults + 1) => faults' \in 0..FlashFaults
  BY <1>0
<1>3. CASE K!Order
  <2>1. orders' \in 0..MaxOrders /\ UNCHANGED <<worn, faults>> /\ pc = "idle"
    BY <1>0, <1>3 DEF K!Order
  <2>2. \/ pc' = "choose" /\ UNCHANGED K!writing
        \/ K!Reply("refused")
        \/ K!Write(K!MfgSlot, "mfg")
        \/ \E k \in Keys : K!Holders(k) # {} /\ K!Write(K!First(K!Holders(k)), "blank")
        \/ K!Write(K!MidSlot, "mid")
    BY <1>3, Zenon DEF K!Order
  <2>3. RecordTyped' /\ Paged'
    <3>1. CASE pc' = "choose" /\ UNCHANGED K!writing
      BY <1>0, <3>1, WritingRests DEF K!writing
    <3>2. CASE K!Reply("refused")
      BY <1>0, <3>2, ReplyTyped
    <3>3. CASE K!Write(K!MfgSlot, "mfg") \/ K!Write(K!MidSlot, "mid")
      BY <1>0, <3>3, WriteTyped, SlotsOfStore
    <3>4. ASSUME NEW k \in Keys, K!Holders(k) # {}, K!Write(K!First(K!Holders(k)), "blank")
          PROVE  RecordTyped' /\ Paged'
      BY <1>0, <3>4, WriteTyped, SlotsOfStore
    <3>5. QED
      BY <2>2, <3>1, <3>2, <3>3, <3>4
  <2>4. QED
    BY <1>0, <2>1, <2>3
<1>4. CASE K!Choose
  <2>1. UNCHANGED <<worn, faults, orders>>
    BY <1>4, Zenon DEF K!Choose
  <2>2. CASE job.kind \in {"add", "batch"} /\ job.keys # <<>>
    <3>1. Head(job.keys) \in Keys
      BY <1>0, <2>2, KeysOfJob
    <3>2. K!Reply("refused") \/ (K!SlotsFor(Head(job.keys)) # {} /\
             K!Write(K!First(K!SlotsFor(Head(job.keys))), Head(job.keys)))
      BY <1>4, <2>2 DEF K!Choose
    <3>3. QED
      BY <1>0, <2>1, <3>1, <3>2, ReplyTyped, WriteTyped, SlotsOfStore
  <2>3. CASE ~(job.kind \in {"add", "batch"} /\ job.keys # <<>>)
    <3>1. K!Reply("served") \/ K!Write(K!MidSlot, "mid") \/ (pc' = "idle" /\ UNCHANGED K!writing)
      BY <1>4, <2>3 DEF K!Choose
    <3>2. CASE pc' = "idle" /\ UNCHANGED K!writing
      BY <1>0, <2>1, <3>2, WritingRests DEF K!writing
    <3>3. CASE K!Reply("served") \/ K!Write(K!MidSlot, "mid")
      BY <1>0, <2>1, <3>3, ReplyTyped, WriteTyped, SlotsOfStore
    <3>4. QED
      BY <3>1, <3>2, <3>3
  <2>4. QED
    BY <2>2, <2>3
<1>5. CASE K!Read \/ K!Fail \/ K!Cut
  <2>1. /\ UNCHANGED <<page, tries, slot, rec, worn, orders>> /\ pc' # "program"
        /\ UNCHANGED faults \/ (faults < FlashFaults /\ faults' = faults + 1)
    BY <1>5 DEF K!Read, K!Fail, K!Cut, K!writing
  <2>2. RecordTyped' /\ Paged'
    BY <1>0, <2>1, WritingRests
  <2>3. QED
    BY <1>0, <1>2, <2>1, <2>2
<1>6. CASE K!Erase
  <2>1. /\ page' = 0 /\ UNCHANGED <<tries, slot, rec, worn, orders>>
        /\ UNCHANGED faults \/ (faults < FlashFaults /\ faults' = faults + 1)
    BY <1>6, Zenon DEF K!Erase
  <2>2. RecordTyped'
    BY <1>0, <2>1, Zenon DEF RecordTyped, K!Slots, K!MfgSlot, K!Recs
  <2>3. Paged'
    BY <2>1, PagesAreSome DEF Paged, K!LastPage, K!MfgSlot
  <2>4. QED
    BY <1>0, <1>2, <2>1, <2>2, <2>3
<1>7. CASE K!Program
  <2>1. /\ pc = "program" /\ page' = page + 1 /\ UNCHANGED <<tries, slot, rec, worn, faults, orders>>
        /\ pc' = IF page = K!LastPage THEN "verify" ELSE "program"
    BY <1>7, Zenon DEF K!Program
  <2>2. RecordTyped'
    BY <1>0, <2>1, Zenon DEF RecordTyped, K!Slots, K!MfgSlot, K!Recs
  <2>3. Paged'
    <3> DEFINE l == K!LastPage
    <3>1. l \in Nat /\ page \in 0..l + 1 /\ page <= l
      BY <1>0, <2>1, PagesAreSome DEF Paged
    <3>2. Paged' <=> page' \in 0..l + 1 /\ (pc' = "program" => page' <= l)
      BY Zenon DEF Paged, K!LastPage, K!MfgSlot
    <3>3. pc' = "program" => page # l
      BY <2>1
    <3> HIDE DEF l
    <3>4. QED
      BY <2>1, <3>1, <3>2, <3>3
  <2>4. QED
    BY <1>0, <2>1, <2>2, <2>3
<1>8. CASE K!Verify
  <2>1. UNCHANGED <<worn, faults, orders>>
    BY <1>8, Zenon DEF K!Verify
  <2>2. CASE tries > 1 /\ K!Again
    <3>1. tries' = tries - 1 /\ pc' = "read" /\ UNCHANGED <<page, slot, rec>>
      BY <2>2, Zenon DEF K!Again
    <3>2. tries \in 0..Tries /\ Tries \in Nat
      BY <1>0 DEF RecordTyped, K!KeyStoreAssumption
    <3>3. tries' \in 0..Tries
      BY <2>2, <3>1, <3>2
    <3>4. RecordTyped'
      BY <1>0, <3>1, <3>3, Zenon DEF RecordTyped, K!Slots, K!MfgSlot, K!Recs
    <3>5. Paged'
      BY <1>0, <3>1 DEF Paged, K!LastPage, K!MfgSlot
    <3>6. QED
      BY <1>0, <2>1, <3>4, <3>5
  <2>3. ASSUME NEW ok, K!Written(ok) PROVE RecordTyped' /\ Paged'
    <3>1. K!Reply("served") \/ K!Reply("refused") \/ (pc' = "choose" /\ UNCHANGED K!writing)
      BY <2>3 DEF K!Written
    <3>2. CASE pc' = "choose" /\ UNCHANGED K!writing
      BY <1>0, <3>2, WritingRests DEF K!writing
    <3>3. QED
      BY <1>0, <3>1, <3>2, ReplyTyped
  <2>4. QED
    BY <1>0, <1>8, <2>1, <2>2, <2>3, Zenon DEF K!Verify
<1>9. CASE UNCHANGED K!vars
  <2>1. UNCHANGED <<page, tries, slot, rec, pc, worn, faults, orders>>
    BY <1>9, Zenon DEF K!vars, K!writing
  <2>2. QED
    BY <1>0, <2>1, WritingRests
<1>10. QED
  BY <1>3, <1>4, <1>5, <1>6, <1>7, <1>8, <1>9, Zenon DEF K!Next

LEMMA KeysTyped == ASSUME KeysInv, KeysMore PROVE K!TypeOK
  BY DEF KeysInv, StoreHeld, KeysMore, RecordTyped, Paged, K!TypeOK

\* Every message of the queue is about an entry of the table.
OfTable(s) == \A i \in DOMAIN s : s[i].c \in S!Conns

LEMMA OfTableBehind ==
  ASSUME NEW s, IsSeq(s), OfTable(s), NEW m, m.c \in S!Conns PROVE OfTable(Append(s, m))
<1>1. PICK T : s \in Seq(T)
  BY Zenon DEF IsSeq
<1>2. /\ DOMAIN s = 1..Len(s) /\ Len(s) \in Nat /\ DOMAIN Append(s, m) = 1..Len(s) + 1
      /\ Append(s, m)[Len(s) + 1] = m /\ \A i \in DOMAIN s : Append(s, m)[i] = s[i]
  BY <1>1
<1>3. \A i \in DOMAIN Append(s, m) : i \in DOMAIN s \/ i = Len(s) + 1
  BY <1>2
<1>4. QED
  BY <1>2, <1>3, Zenon DEF OfTable

LEMMA OfTableJoined ==
  ASSUME NEW s, IsSeq(s), OfTable(s), NEW t, IsSeq(t), OfTable(t) PROVE OfTable(s \o t)
<1>1. PICK T : s \in Seq(T)
  BY Zenon DEF IsSeq
<1>2. PICK U : t \in Seq(U)
  BY Zenon DEF IsSeq
<1> DEFINE V == T \cup U
<1>3. s \in Seq(V) /\ t \in Seq(V)
  BY <1>1, <1>2
<1> HIDE DEF V
<1>4. ASSUME NEW i \in DOMAIN (s \o t)
      PROVE  (i \in DOMAIN s /\ (s \o t)[i] = s[i]) \/ (\E j \in DOMAIN t : (s \o t)[i] = t[j])
  <2>1. /\ Len(s) \in Nat /\ Len(t) \in Nat /\ i \in 1..Len(s) + Len(t)
        /\ DOMAIN s = 1..Len(s) /\ DOMAIN t = 1..Len(t)
    BY <1>3
  <2>2. CASE i <= Len(s)
    BY <1>3, <2>1, <2>2
  <2>3. CASE ~(i <= Len(s))
    <3>1. i - Len(s) \in DOMAIN t /\ (s \o t)[i] = t[i - Len(s)]
      BY <1>3, <2>1, <2>3
    <3>2. QED
      BY <3>1
  <2>4. QED
    BY <2>2, <2>3
<1>5. QED
  BY <1>4, Zenon DEF OfTable

LEMMA OfTableTail ==
  ASSUME NEW s, IsSeq(s), OfTable(s), s # <<>> PROVE OfTable(Tail(s)) /\ Head(s).c \in S!Conns
<1>1. PICK T : s \in Seq(T)
  BY Zenon DEF IsSeq
<1>2. /\ 1 \in DOMAIN s /\ Head(s) = s[1]
      /\ \A i \in DOMAIN Tail(s) : i + 1 \in DOMAIN s /\ Tail(s)[i] = s[i + 1]
  BY <1>1
<1>3. QED
  BY <1>2, Zenon DEF OfTable

LEMMA OfTableOne == ASSUME NEW m, m.c \in S!Conns PROVE IsSeq(<<m>>) /\ OfTable(<<m>>)
<1>1. <<m>> \in Seq({m}) /\ DOMAIN <<m>> = {1} /\ <<m>>[1] = m
  OBVIOUS
<1>2. QED
  BY <1>1, Zenon DEF IsSeq, OfTable

\* A finite set of numbers has a member of every rank.
LEMMA RankIsFound ==
  ASSUME NEW A, A \subseteq Nat, IsFiniteSet(A), NEW i \in 1..Cardinality(A)
  PROVE  \E c \in A : Cardinality({d \in A : d < c}) = i - 1
<1> DEFINE n == Cardinality(A)
           Below(c) == {d \in A : d < c}
           f == [c \in A |-> Cardinality(Below(c))]
           T == 0..n - 1
<1>1. n \in Nat
  BY FS_CardinalityType
<1>2. IsFiniteSet(T) /\ Cardinality(T) = n
  <2> HIDE DEF n
  <2>1. 0 \in Int /\ n - 1 \in Int
    BY <1>1
  <2>2. IsFiniteSet(T) /\ Cardinality(T) = IF 0 > n - 1 THEN 0 ELSE (n - 1) - 0 + 1
    BY <2>1, FS_Interval
  <2>3. QED
    BY <1>1, <2>2
<1>3. \A c \in A : IsFiniteSet(Below(c)) /\ Cardinality(Below(c)) \in Nat /\ Cardinality(Below(c)) <= n
  BY FS_Subset, FS_CardinalityType
<1>4. \A c \in A : Below(c) # A
  OBVIOUS
<1>5. f \in [A -> T]
  <2>1. ASSUME NEW c \in A PROVE Cardinality(Below(c)) \in T
    <3>1. Below(c) \subseteq A /\ Below(c) # A
      BY <1>4
    <3>2. Cardinality(Below(c)) # n
      BY <3>1, FS_Subset
    <3>3. Cardinality(Below(c)) \in Nat /\ Cardinality(Below(c)) <= n
      BY <1>3
    <3> HIDE DEF n, Below
    <3>4. QED
      BY <1>1, <3>2, <3>3
  <2>2. QED
    BY <2>1
<1>6. ASSUME NEW c \in A, NEW d \in A, c < d PROVE f[c] # f[d]
  <2>0. c \in Nat /\ d \in Nat /\ \A e \in A : e \in Nat
    OBVIOUS
  <2>1. Below(c) \subseteq Below(d) /\ c \in Below(d) /\ c \notin Below(c)
    <3>1. ASSUME NEW e \in A, e < c PROVE e < d
      BY <1>6, <2>0, <3>1
    <3>2. ~(c < c)
      BY <2>0
    <3>3. QED
      BY <1>6, <3>1, <3>2, Zenon
  <2>2. Below(c) # Below(d) /\ IsFiniteSet(Below(d))
    BY <1>3, <2>1
  <2>3. Cardinality(Below(c)) # Cardinality(Below(d))
    BY <2>1, <2>2, FS_Subset
  <2>4. QED
    BY <2>3
<1>7. f \in Injection(A, T)
  <2>1. \A c, d \in A : c < d \/ d < c \/ c = d
    OBVIOUS
  <2> HIDE DEF f, T
  <2>2. \A c, d \in A : f[c] = f[d] => c = d
    BY <1>6, <2>1
  <2>3. QED
    BY <1>5, <2>2 DEF Injection, IsInjective
<1>8. f \in Surjection(A, T)
  <2> HIDE DEF f, T
  <2>1. QED
    BY <1>2, <1>7, FS_Injection
<1>9. i - 1 \in T
  BY <1>1
<1>10. PICK c \in A : f[c] = i - 1
  <2> HIDE DEF f, T
  <2>1. QED
    BY <1>8, <1>9 DEF Surjection
<1>11. QED
  BY <1>10

LEMMA AskedOfTable == ASSUME S!SessionsAssumption PROVE OfTable(S!Asked)
<1>1. S!Conns = 0..NConns - 1 /\ NConns \in Nat
  BY DEF S!Conns, S!SessionsAssumption
<1> DEFINE A == S!Overdue
<1>2. A \subseteq S!Conns /\ A \subseteq Nat /\ IsFiniteSet(A)
  <2>1. IsFiniteSet(S!Conns) /\ S!Overdue \subseteq S!Conns
    BY <1>1, FS_Interval DEF S!Overdue
  <2>2. A \subseteq S!Conns /\ A \in SUBSET S!Conns
    BY <2>1
  <2> HIDE DEF A
  <2>3. IsFiniteSet(A)
    BY <2>1, <2>2, FS_Subset
  <2>4. A \subseteq Nat
    BY <1>1, <2>2
  <2>5. QED
    BY <2>2, <2>3, <2>4
<1>3. ASSUME NEW i \in DOMAIN S!Asked PROVE S!Asked[i].c \in S!Conns
  <2>1. i \in 1..Cardinality(A) /\ S!Asked[i] = S!Msg("disconnect", S!Nth(i))
    BY SameCount DEF S!Asked
  <2>2. \E c \in A : Cardinality({d \in A : d < c}) = i - 1
    <3> HIDE DEF A
    <3>1. QED
      BY <1>2, <2>1, RankIsFound
  <2>3. \E c \in A : S!Cardinality({d \in A : d < c}) = i - 1
    BY <2>2, SameCount, Zenon
  <2>4. S!Nth(i) \in A
    BY <2>3, Zenon DEF S!Nth
  <2>5. S!Asked[i].c = S!Nth(i)
    BY <2>1 DEF S!Msg
  <2>6. QED
    BY <1>2, <2>4, <2>5
<1>4. QED
  BY <1>3 DEF OfTable

\* The entries with their clocks, and what else the machine keeps.
Aged == [st : {"free", "up", "gone"}, key : BOOLEAN, proven : BOOLEAN,
         age : 0..Patience + 1, mine : SessionKeys \cup {NoRecord}]
Links == conn \in [S!Conns -> Aged]
Apart == /\ buffer \in SessionKeys \cup {NoRecord, "mfg"} /\ off \in BOOLEAN
         /\ closing \subseteq S!Conns /\ events \in 0..LinkEvents
SessionsMore == Links /\ OfTable(q) /\ Apart

LEMMA FreeIsAged == ASSUME S!SessionsAssumption PROVE S!Free \in Aged
  BY DEF S!SessionsAssumption, S!Free, Aged

LEMMA LinkReplaced ==
  ASSUME Links, NEW c \in S!Conns, NEW e \in Aged, conn' = [conn EXCEPT ![c] = e] PROVE Links'
<1>1. conn' \in [S!Conns -> Aged]
  BY DEF Links
<1>2. QED
  BY <1>1, Zenon DEF Links, Aged, S!Conns

LEMMA LinksRest == ASSUME Links, UNCHANGED conn PROVE Links'
  BY Zenon DEF Links, Aged, S!Conns

LEMMA MessageTyped ==
  ASSUME NEW s, IsSeq(s), OfTable(s), NEW ev, NEW c \in S!Conns
  PROVE  OfTable(Append(s, S!Msg(ev, c))) /\ OfTable(<<S!Msg(ev, c)>>)
<1>1. S!Msg(ev, c).c = c
  BY DEF S!Msg
<1>2. QED
  BY <1>1, OfTableBehind, OfTableOne

LEMMA SessionsTypesBegin == ASSUME S!SessionsAssumption PROVE S!Init => SessionsMore
<1> SUFFICES ASSUME S!Init PROVE SessionsMore
  OBVIOUS
<1>1. /\ conn = [c \in S!Conns |-> S!Free] /\ buffer = NoRecord /\ q = <<S!Msg("boot", 0)>>
      /\ off = FALSE /\ closing = {} /\ events = 0
  BY Zenon DEF S!Init
<1>2. Links
  BY <1>1, FreeIsAged DEF Links
<1>3. OfTable(q)
  <2>1. S!Msg("boot", 0).c = 0 /\ 0 \in S!Conns
    BY DEF S!Msg, S!Conns, S!SessionsAssumption
  <2>2. QED
    BY <1>1, <2>1, OfTableOne
<1>4. Apart
  <2>1. off \in BOOLEAN
    BY <1>1
  <2>2. events \in 0..LinkEvents
    BY <1>1 DEF S!SessionsAssumption
  <2>3. QED
    BY <1>1, <2>1, <2>2 DEF Apart
<1>5. QED
  BY <1>2, <1>3, <1>4 DEF SessionsMore

LEMMA SuperviseTyped ==
  ASSUME S!SessionsAssumption, SessionsMore, NEW rest, IsSeq(rest), OfTable(rest), S!Supervise(rest)
  PROVE  SessionsMore'
<1>1. PICK lost \in {FALSE} \cup {events < LinkEvents} :
        LET sent == IF lost THEN <<>> ELSE S!Asked IN
        /\ events' = IF lost THEN events + 1 ELSE events
        /\ IF S!Gone = {} THEN q' = rest \o sent /\ UNCHANGED conn
           ELSE LET g == CHOOSE c \in S!Gone : \A d \in S!Gone : c <= d
                IN conn' = [conn EXCEPT ![g] = S!Free] /\ q' = rest \o sent \o <<S!Msg("closed", g)>>
  BY DEF S!Supervise
<1> DEFINE sent == IF lost THEN <<>> ELSE S!Asked
           g == CHOOSE c \in S!Gone : \A d \in S!Gone : c <= d
<1>2. IsSeq(sent) /\ OfTable(sent)
  <2>1. <<>> \in Seq({}) /\ DOMAIN <<>> = {}
    OBVIOUS
  <2>2. IsSeq(<<>>) /\ OfTable(<<>>)
    BY <2>1, Zenon DEF IsSeq, OfTable
  <2>3. QED
    BY <2>2, AskedIsSequence, AskedOfTable, Zenon
<1>3. events' \in 0..LinkEvents
  <2>1. events \in 0..LinkEvents /\ LinkEvents \in Nat
    BY DEF SessionsMore, Apart, S!SessionsAssumption
  <2>2. events' = events \/ (events < LinkEvents /\ events' = events + 1)
    BY <1>1, Zenon
  <2>3. QED
    BY <2>1, <2>2
<1>4. Apart'
  BY <1>3, Zenon DEF S!Supervise, SessionsMore, Apart, S!Conns
<1> HIDE DEF sent
<1>5. IsSeq(rest \o sent) /\ OfTable(rest \o sent)
  BY <1>2, NewsInFront, OfTableJoined
<1>6. CASE S!Gone = {}
  <2>1. q' = rest \o sent /\ UNCHANGED conn
    BY <1>1, <1>6, Zenon DEF sent
  <2>2. OfTable(q)'
    BY <1>5, <2>1, Zenon DEF OfTable, S!Conns
  <2>3. QED
    BY <1>4, <2>1, <2>2, LinksRest, Zenon DEF SessionsMore
<1>7. CASE S!Gone # {}
  <2>1. conn' = [conn EXCEPT ![g] = S!Free] /\ q' = rest \o sent \o <<S!Msg("closed", g)>>
    BY <1>1, <1>7, Zenon DEF sent
  <2>2. g \in S!Conns
    <3>1. S!Gone \subseteq Nat
      BY DEF S!Gone, S!Conns
    <3>2. g \in S!Gone
      BY <1>7, <3>1, LeastNatural, Zenon
    <3>3. QED
      BY <3>2, Zenon DEF S!Gone
  <2> HIDE DEF g
  <2>3. Links'
    BY <2>1, <2>2, FreeIsAged, LinkReplaced DEF SessionsMore
  <2> DEFINE m == S!Msg("closed", g)
             s == rest \o sent
  <2>4. m.c \in S!Conns
    BY <2>2 DEF S!Msg
  <2> HIDE DEF m, s
  <2>5. OfTable(s \o <<m>>)
    BY <1>5, <2>4, OfTableOne, OfTableJoined DEF s
  <2>6. OfTable(q)'
    BY <2>1, <2>5, Zenon DEF OfTable, S!Conns, m, s
  <2>7. QED
    BY <1>4, <2>3, <2>6, Zenon DEF SessionsMore
<1>8. QED
  BY <1>6, <1>7

\* A step that leaves the table of connections and the counter alone.
LEMMA ApartTyped ==
  ASSUME Links, OfTable(q'), UNCHANGED <<conn, events>>, Apart,
         buffer' \in SessionKeys \cup {NoRecord, "mfg"}, off' \in BOOLEAN, closing' \subseteq S!Conns
  PROVE  SessionsMore'
<1>1. Links'
  BY LinksRest
<1>2. OfTable(q)'
  BY Zenon DEF OfTable, S!Conns
<1>3. events' \in 0..LinkEvents
  BY Zenon DEF Apart
<1>4. Apart'
  BY <1>3, Zenon DEF Apart, S!Conns
<1>5. QED
  BY <1>1, <1>2, <1>4, Zenon DEF SessionsMore

LEMMA WriteHandledTyped ==
  ASSUME S!SessionsAssumption, SessionsMore, NEW m, m.c \in S!Conns, NEW rest, IsSeq(rest), OfTable(rest),
         S!Write(m, rest), UNCHANGED events
  PROVE  SessionsMore'
<1> DEFINE c == m.c
<1>0. /\ Links /\ Apart /\ c \in S!Conns /\ buffer \in SessionKeys \cup {NoRecord, "mfg"} /\ off \in BOOLEAN
      /\ closing \subseteq S!Conns
  BY DEF SessionsMore, Apart
<1>1. conn[c].mine \in SessionKeys \cup {NoRecord, "mfg"}
  BY <1>0 DEF Links, Aged
<1>2. \A ev : OfTable(Append(rest, S!Msg(ev, c)))
  BY <1>0, MessageTyped
<1> HIDE DEF c
<1>3. ASSUME S!LinkError(c) PROVE UNCHANGED <<conn, off>> /\ closing' \subseteq S!Conns
  BY <1>0, <1>3 DEF S!LinkError
<1>4. CASE m.w \in {"auth", "guess"}
  <2>1. S!Handshake(m, rest)
    BY <1>4, Zenon DEF S!Write
  <2>2. buffer' \in SessionKeys \cup {NoRecord, "mfg"}
    BY <1>1, <2>1, Zenon DEF S!Handshake, S!Derive, c
  <2>3. CASE S!LinkError(c) /\ q' = rest
    BY <1>0, <1>3, <2>2, <2>3, ApartTyped
  <2>4. CASE \E good \in BOOLEAN : /\ conn' = S!KeySet(c, good) /\ UNCHANGED <<off, closing>>
                                   /\ \E ev : q' = Append(rest, S!Msg(ev, c))
    <3>1. PICK good \in BOOLEAN : /\ conn' = S!KeySet(c, good) /\ UNCHANGED <<off, closing>>
                                 /\ \E ev : q' = Append(rest, S!Msg(ev, c))
      BY <2>4, Zenon
    <3>2. conn' = [conn EXCEPT ![c].key = TRUE, ![c].proven = @ \/ good]
      BY <3>1, Zenon DEF S!KeySet
    <3>3. conn' \in [S!Conns -> Aged]
      <4> DEFINE Ages == 0..Patience + 1
                 Entry == [st : {"free", "up", "gone"}, key : BOOLEAN, proven : BOOLEAN,
                           age : Ages, mine : SessionKeys \cup {NoRecord}]
      <4>1. Aged = Entry /\ conn \in [S!Conns -> Entry]
        BY <1>0 DEF Links, Aged
      <4> HIDE DEF Ages
      <4> DEFINE p == conn[c].proven \/ good
                 e == [conn[c] EXCEPT !.key = TRUE, !.proven = p]
      <4>2. p \in BOOLEAN
        OBVIOUS
      <4> HIDE DEF p
      <4>3. e \in Entry
        BY <1>0, <4>1, <4>2
      <4>4. conn' = [conn EXCEPT ![c] = e]
        BY <1>0, <3>2, <4>1 DEF p
      <4> HIDE DEF e, Entry
      <4>5. conn' \in [S!Conns -> Entry]
        BY <1>0, <4>1, <4>3, <4>4
      <4>6. QED
        BY <4>1, <4>5
    <3>4. Links'
      BY <3>3, Zenon DEF Links, Aged, S!Conns
    <3>5. OfTable(q)'
      BY <1>2, <3>1, Zenon DEF OfTable, S!Conns
    <3>6. Apart'
      BY <1>0, <2>2, <3>1, Zenon DEF Apart, S!Conns
    <3>7. QED
      BY <3>4, <3>5, <3>6, Zenon DEF SessionsMore
  <2>5. QED
    <3> DEFINE good == m.w = "auth"
               Sets == /\ conn' = S!KeySet(c, good)
                       /\ q' = Append(rest, S!Msg(IF good THEN "authed" ELSE "disconnect", c))
                       /\ UNCHANGED <<off, closing>>
    <3>1. (S!LinkError(c) /\ q' = rest) \/ Sets
      BY <2>1, Zenon DEF S!Handshake, c
    <3>2. good \in BOOLEAN
      OBVIOUS
    <3> HIDE DEF good
    <3>3. Sets => SessionsMore'
      BY <2>4, <3>2, Zenon
    <3> HIDE DEF Sets
    <3>4. QED
      BY <2>3, <3>1, <3>3, Zenon
<1>5. CASE m.w = "cmd"
  <2>1. S!Command(m, rest)
    BY <1>5, Zenon DEF S!Write
  <2>2. /\ UNCHANGED <<conn, buffer, off>> /\ closing' \subseteq S!Conns
        /\ q' = rest \/ q' = Append(rest, S!Msg("disconnect", c))
    <3>1. CASE S!LinkError(c) /\ q' = rest /\ UNCHANGED buffer
      BY <1>3, <3>1
    <3>2. CASE /\ UNCHANGED <<conn, buffer, off, closing>>
               /\ q' = rest \/ q' = Append(rest, S!Msg("disconnect", c))
      BY <1>0, <3>2
    <3>3. QED
      BY <2>1, <3>1, <3>2, Zenon DEF S!Command, c
  <2>3. OfTable(q')
    BY <1>2, <2>2
  <2>4. QED
    BY <1>0, <2>2, <2>3, ApartTyped
<1>6. CASE m.w \notin {"auth", "guess", "cmd"}
  <2>1. S!Office(m, rest)
    BY <1>6, Zenon DEF S!Write
  <2>2. /\ buffer' = "mfg" /\ conn' = S!Touched(c) /\ q' = rest /\ UNCHANGED <<off, closing>>
    BY <2>1, Zenon DEF S!Office, S!OfficeKey, c
  <2>3. conn' = IF c \in S!Active THEN [conn EXCEPT ![c].age = 0] ELSE conn
    BY <2>2, Zenon DEF S!Touched
  <2>4. conn' \in [S!Conns -> Aged]
    BY <1>0, <2>3 DEF Links, Aged, S!SessionsAssumption
  <2>5. Links'
    BY <2>4, Zenon DEF Links, Aged, S!Conns
  <2>6. OfTable(q)'
    BY <2>2, Zenon DEF OfTable, S!Conns
  <2>7. Apart'
    BY <1>0, <2>2, Zenon DEF Apart, S!Conns
  <2>8. QED
    BY <2>5, <2>6, <2>7, Zenon DEF SessionsMore
<1>7. QED
  BY <1>4, <1>5, <1>6

LEMMA DispatchTyped ==
  ASSUME S!SessionsAssumption, SessionsInv, SessionsMore, S!Dispatch
  PROVE  SessionsMore'
<1> DEFINE m == Head(q)
           rest == Tail(q)
<1>0. q # <<>> /\ (m.ev # "tick" => UNCHANGED events)
  BY Zenon DEF S!Dispatch
<1>1. IsSeq(rest) /\ OfTable(rest) /\ m.c \in S!Conns
  BY <1>0, NewsBefore, OfTableTail DEF SessionsInv, SessionsMore
<1>2. (S!Quiet(rest) /\ UNCHANGED events) \/ S!Handled(m, rest)
  BY Zenon DEF S!Dispatch
<1>3. /\ Links /\ Apart /\ buffer \in SessionKeys \cup {NoRecord, "mfg"} /\ off \in BOOLEAN
      /\ closing \subseteq S!Conns
  BY DEF SessionsMore, Apart
<1> HIDE DEF m, rest
<1>4. ASSUME q' = rest, UNCHANGED <<conn, buffer, events>>, off' \in BOOLEAN, closing' \subseteq S!Conns
      PROVE  SessionsMore'
  BY <1>1, <1>3, <1>4, ApartTyped
<1>5. ASSUME NEW p, S!Apply1If(p) PROVE off' \in BOOLEAN
  <2>1. off' = FALSE \/ off' = off
    BY <1>5, Zenon DEF S!Apply1If, S!Apply1
  <2>2. QED
    BY <1>3, <2>1
<1>6. CASE S!Quiet(rest) /\ UNCHANGED events
  BY <1>0, <1>3, <1>4, <1>6, Zenon DEF S!Quiet
<1>7. CASE m.ev = "tick" /\ S!Supervise(rest)
  BY <1>1, <1>7, SuperviseTyped
<1>8. CASE m.ev # "tick" /\ S!Write(m, rest)
  BY <1>0, <1>1, <1>8, WriteHandledTyped
<1>9. CASE m.ev # "tick" /\ (S!Boot(rest) \/ S!Authed(rest))
  BY <1>0, <1>3, <1>4, <1>9, Zenon DEF S!Boot, S!Authed
<1>10. CASE m.ev # "tick" /\ (S!Connected(rest) \/ S!Disconnected(rest) \/ S!Left(rest))
  BY <1>0, <1>3, <1>4, <1>5, <1>10, Zenon DEF S!Connected, S!Disconnected, S!Left
<1>11. CASE m.ev # "tick" /\ S!Ordered(m, rest)
  <2>1. q' = rest /\ UNCHANGED <<conn, buffer, events>>
    BY <1>0, <1>11, Zenon DEF S!Ordered
  <2>2. off' \in {off, TRUE, FALSE}
    BY <1>11 DEF S!Ordered, S!Apply1, S!Disable1
  <2>3. off' \in BOOLEAN
    BY <1>3, <2>2
  <2>4. closing' \subseteq S!Conns
    BY <1>3, <1>11 DEF S!Ordered, S!Active
  <2>5. QED
    BY <1>4, <2>1, <2>3, <2>4
<1>12. CASE m.ev # "tick" /\ S!Disconnect(m, rest)
  <2>1. q' = rest /\ UNCHANGED <<conn, buffer, off, events>>
    BY <1>0, <1>12, Zenon DEF S!Disconnect
  <2>2. closing' \subseteq S!Conns
    BY <1>1, <1>3, <1>12 DEF S!Disconnect
  <2>3. QED
    BY <1>3, <1>4, <2>1, <2>2
<1>13. QED
  BY <1>2, <1>6, <1>7, <1>8, <1>9, <1>10, <1>11, <1>12, Zenon DEF S!Handled

LEMMA SessionsTypesKept ==
  ASSUME S!SessionsAssumption, SessionsInv, SessionsMore, [S!Next]_(S!vars)
  PROVE  SessionsMore'
<1>0. /\ Links /\ OfTable(q) /\ Apart /\ IsSeq(q) /\ off \in BOOLEAN /\ closing \subseteq S!Conns
      /\ events \in 0..LinkEvents /\ LinkEvents \in Nat /\ 0 \in S!Conns
      /\ buffer \in SessionKeys \cup {NoRecord, "mfg"}
  BY DEF SessionsMore, SessionsInv, Apart, S!SessionsAssumption, S!Conns
<1>1. S!Happens => events' \in 0..LinkEvents
  BY <1>0 DEF S!Happens
<1>2. ASSUME conn' \in [S!Conns -> Aged], OfTable(q'), events' \in 0..LinkEvents,
             UNCHANGED <<buffer, off>>, closing' \subseteq S!Conns
      PROVE  SessionsMore'
  <2>1. Links'
    BY <1>2, Zenon DEF Links, Aged, S!Conns
  <2>2. OfTable(q)'
    BY <1>2, Zenon DEF OfTable, S!Conns
  <2>3. Apart'
    BY <1>0, <1>2, Zenon DEF Apart, S!Conns
  <2>4. QED
    BY <2>1, <2>2, <2>3, Zenon DEF SessionsMore
<1>3. conn \in [S!Conns -> Aged] /\ S!Free \in Aged
  BY <1>0, FreeIsAged DEF Links
<1>4. ASSUME S!Abort, events' \in 0..LinkEvents PROVE SessionsMore'
  <2>1. /\ conn' = [c \in S!Conns |-> S!Free] /\ buffer' = NoRecord /\ q' = <<S!Msg("boot", 0)>>
        /\ off' = FALSE /\ closing' = {}
    BY <1>4, Zenon DEF S!Abort
  <2>2. OfTable(q')
    BY <1>0, <2>1, MessageTyped
  <2>3. conn' \in [S!Conns -> Aged]
    BY <1>3, <2>1
  <2>4. Links'
    BY <2>3, Zenon DEF Links, Aged, S!Conns
  <2>5. OfTable(q)'
    BY <2>2, Zenon DEF OfTable, S!Conns
  <2>6. /\ buffer' \in SessionKeys \cup {NoRecord, "mfg"} /\ closing' \subseteq S!Conns
    BY <2>1
  <2>7. off' \in BOOLEAN
    BY <2>1, Zenon
  <2>8. Apart'
    BY <1>4, <2>6, <2>7, Zenon DEF Apart, S!Conns
  <2>9. QED
    BY <2>4, <2>5, <2>8, Zenon DEF SessionsMore
<1>5. CASE S!DispatchAbort
  BY <1>0, <1>4, <1>5, Zenon DEF S!DispatchAbort
<1>6. CASE S!NoMemory
  BY <1>1, <1>4, <1>6, Zenon DEF S!NoMemory
<1>7. ASSUME NEW c \in S!Conns, NEW k \in SessionKeys \cup {NoRecord}, S!Connect(c, k) PROVE SessionsMore'
  <2> DEFINE f == [S!Free EXCEPT !.st = "up", !.mine = k]
  <2>1. /\ conn' = [conn EXCEPT ![c] = f] /\ q' = Append(q, S!Msg("connected", c))
        /\ UNCHANGED <<buffer, off, closing>> /\ S!Happens
    BY <1>7, Zenon DEF S!Connect
  <2>2. f \in Aged
    <3> DEFINE Ages == 0..Patience + 1
    <3>1. 0 \in Ages
      BY DEF S!SessionsAssumption
    <3>2. Aged = [st : {"free", "up", "gone"}, key : BOOLEAN, proven : BOOLEAN,
                  age : Ages, mine : SessionKeys \cup {NoRecord}]
      BY DEF Aged
    <3> HIDE DEF Ages
    <3>3. f \in [st : {"free", "up", "gone"}, key : BOOLEAN, proven : BOOLEAN,
                 age : Ages, mine : SessionKeys \cup {NoRecord}]
      BY <3>1 DEF S!Free
    <3>4. QED
      BY <3>2, <3>3
  <2> HIDE DEF f
  <2>3. conn' \in [S!Conns -> Aged] /\ OfTable(q')
    BY <1>0, <1>3, <2>1, <2>2, MessageTyped
  <2>4. QED
    BY <1>0, <1>1, <1>2, <2>1, <2>3
<1>8. ASSUME NEW c \in S!Conns, NEW w \in S!Writes, S!PhoneWrites(c, w) PROVE SessionsMore'
  <2> DEFINE m == [ev |-> "write", c |-> c, w |-> w]
  <2>1. q' = Append(q, m) /\ UNCHANGED <<conn, buffer, off, closing>> /\ S!Happens
    BY <1>8, Zenon DEF S!PhoneWrites
  <2>2. m.c \in S!Conns
    OBVIOUS
  <2> HIDE DEF m
  <2>3. OfTable(q')
    BY <1>0, <2>1, <2>2, OfTableBehind
  <2>4. QED
    BY <1>0, <1>1, <1>2, <1>3, <2>1, <2>3
<1>9. ASSUME NEW c \in S!Conns, conn' = [conn EXCEPT ![c] = S!Free], q' = Append(q, S!Msg("closed", c)),
             closing' = closing \ {c}, UNCHANGED <<buffer, off>>, events' \in 0..LinkEvents
      PROVE  SessionsMore'
  <2>1. conn' \in [S!Conns -> Aged] /\ OfTable(q') /\ closing' \subseteq S!Conns
    BY <1>0, <1>3, <1>9, MessageTyped
  <2>2. QED
    BY <1>2, <1>9, <2>1
<1>10. ASSUME NEW c \in S!Conns, S!Closed(c) PROVE SessionsMore'
  <2>1. UNCHANGED events
    BY <1>10, Zenon DEF S!Closed
  <2>2. events' \in 0..LinkEvents
    BY <1>0, <2>1
  <2>3. QED
    BY <1>9, <1>10, <2>2, Zenon DEF S!Closed
<1>11. ASSUME NEW c \in S!Conns, S!Vanish(c) PROVE SessionsMore'
  <2>1. CASE conn' = [conn EXCEPT ![c] = S!Free] /\ q' = Append(q, S!Msg("closed", c))
    BY <1>1, <1>9, <1>11, <2>1, Zenon DEF S!Vanish
  <2>2. CASE conn' = [conn EXCEPT ![c].st = "gone"] /\ UNCHANGED q
    <3>1. closing' = closing \ {c} /\ UNCHANGED <<buffer, off>> /\ S!Happens
      BY <1>11, Zenon DEF S!Vanish
    <3>2. conn' \in [S!Conns -> Aged]
      BY <1>3, <2>2 DEF Aged
    <3>3. QED
      BY <1>0, <1>1, <1>2, <2>2, <3>1, <3>2
  <2>3. QED
    BY <1>11, <2>1, <2>2, Zenon DEF S!Vanish
<1>12. ASSUME NEW w \in S!Orders, S!Order(w) PROVE SessionsMore'
  <2> DEFINE m == IF w = "left" THEN S!Msg("left", 0) ELSE [ev |-> "order", c |-> 0, w |-> w]
  <2>1. q' = Append(q, m) /\ UNCHANGED <<conn, buffer, off, closing>> /\ S!Happens
    BY <1>12, Zenon DEF S!Order
  <2>2. m.c \in S!Conns
    BY <1>0 DEF S!Msg
  <2> HIDE DEF m
  <2>3. OfTable(q')
    BY <1>0, <2>1, <2>2, OfTableBehind
  <2>4. QED
    BY <1>0, <1>1, <1>2, <1>3, <2>1, <2>3
<1>13. CASE S!Clock
  <2>1. /\ conn' = [c \in S!Conns |-> IF conn[c].st = "free" THEN conn[c]
                     ELSE [conn[c] EXCEPT !.age = IF @ > Patience THEN @ ELSE @ + 1]]
        /\ q' = Append(q, S!Msg("tick", 0)) /\ UNCHANGED <<buffer, off, closing, events>>
    BY <1>13, Zenon DEF S!Clock
  <2>2. ASSUME NEW d \in S!Conns PROVE conn'[d] \in Aged
    <3> DEFINE e == conn[d]
    <3>1. e \in Aged
      BY <1>3
    <3>2. conn'[d] = IF e.st = "free" THEN e ELSE [e EXCEPT !.age = IF @ > Patience THEN @ ELSE @ + 1]
      BY <2>1, Zenon
    <3> HIDE DEF e
    <3> DEFINE a == IF e.age > Patience THEN e.age ELSE e.age + 1
    <3>3. a \in 0..Patience + 1
      BY <3>1 DEF Aged, S!SessionsAssumption
    <3>4. conn'[d] = e \/ conn'[d] = [e EXCEPT !.age = a]
      BY <3>2, Zenon
    <3> HIDE DEF a
    <3>5. QED
      BY <3>1, <3>3, <3>4 DEF Aged
  <2>3. conn' = [d \in S!Conns |-> conn'[d]]
    BY <2>1
  <2>4. conn' \in [S!Conns -> Aged]
    BY <2>2, <2>3, Zenon
  <2>5. OfTable(q')
    BY <1>0, <2>1, MessageTyped
  <2>6. QED
    BY <1>0, <1>2, <2>1, <2>4, <2>5
<1>14. CASE UNCHANGED S!vars
  <2>1. UNCHANGED <<conn, buffer, q, off, closing, events>>
    BY <1>14, Zenon DEF S!vars
  <2>2. QED
    BY <1>0, <1>2, <1>3, <2>1
<1>15. QED
  BY <1>5, <1>6, <1>7, <1>8, <1>10, <1>11, <1>12, <1>13, <1>14, DispatchTyped, Zenon DEF S!Next

LEMMA SessionsTyped == ASSUME SessionsInv, SessionsMore PROVE S!TypeOK
  BY DEF SessionsInv, SessionsMore, Links, Aged, Apart, OfTable, S!TypeOK

-----------------------------------------------------------------------------
(* The machines together                                                    *)

LEMMA OadSteps == ASSUME O!OadAssumption, OadInv, [O!Next]_(O!vars) PROVE OadInv'
<1>1. CASE O!Next
  BY <1>1, OadKept
<1>2. CASE UNCHANGED O!vars
  <2>1. UNCHANGED <<owner, taken, file, got, cursor, flash, sending, event>>
    BY <1>2, Zenon DEF O!vars
  <2>2. Sent'
    BY <2>1, Zenon DEF OadInv, Sent
  <2>3. QED
    BY <2>1, <2>2, TransferRests
<1>3. QED
  BY <1>1, <1>2

LEMMA KeysSteps == ASSUME K!KeyStoreAssumption, KeysInv, [K!Next]_(K!vars) PROVE KeysInv'
<1>1. CASE K!Next
  BY <1>1, KeysKept
<1>2. CASE UNCHANGED K!vars
  <2>1. UNCHANGED <<flash, scratch, pc, slot, rec, job, granted>>
    BY <1>2, Zenon DEF K!vars, K!writing
  <2>2. \A s : Copies(s)' = Copies(s)
    BY <2>1, Zenon DEF Copies
  <2>3. \A s \in K!Slots : Copies(s)' \subseteq
             Copies(s) \cup {"blank", "torn"} \cup {x \in {rec} : Inflight /\ s = slot}
    BY <2>2
  <2>4. Inflight' <=> Inflight
    BY <2>1, Zenon DEF Inflight
  <2>5. Rewriting
    BY <2>1, <2>3, <2>4, Zenon DEF Rewriting, KeysInv, StoreHeld
  <2>6. QED
    BY <2>5, RewritingKept
<1>3. QED
  BY <1>1, <1>2

LEMMA BlewareSteps ==
  ASSUME [AnyNext]_all
  PROVE  /\ which' = which
         /\ which = "sessions" => [S!Next]_(S!vars)
         /\ which = "oad" => [O!Next]_(O!vars)
         /\ which = "serial" => [Y!Next]_(Y!vars)
         /\ which = "keys" => [K!Next]_(K!vars)
<1>1. CASE UNCHANGED all
  BY <1>1 DEF all, S!vars, O!vars, Y!vars, K!vars, K!writing
<1>2. CASE AnyNext
  BY <1>2 DEF AnyNext, SessionsNext, OadNext, SerialNext, KeysNext,
     SessionsStill, OadStill, SerialStill, KeysStill
<1>3. QED
  BY <1>1, <1>2

\* The fairness of the machines is not needed for what follows.
LEMMA OnlySteps == AnySpec => AnyInit /\ [][AnyNext]_all
  BY PTL DEF AnySpec

\* The images that the coprocessor accepts or marks for the boot loader, as
\* MCBleware's run has them (oad.c, ymodem.c, cmd_update.c).
THEOREM ImagesStayWhole == AnySpec => []OnlyWholeImages
<1> DEFINE I == /\ which = "oad" => OadInv
                /\ which = "serial" => SerialInv
<1>0. O!OadAssumption /\ Y!YmodemAssumption
  BY MCBlewareAssumption
<1>1. AnyInit => I
  BY <1>0, OadBegins, SerialBegins DEF AnyInit, SessionsInit, OadInit, SerialInit, KeysInit
<1>2. I /\ [AnyNext]_all => I'
  <2> SUFFICES ASSUME I, [AnyNext]_all PROVE I'
    OBVIOUS
  <2>1. /\ which' = which
        /\ which = "oad" => [O!Next]_(O!vars)
        /\ which = "serial" => [Y!Next]_(Y!vars)
    BY BlewareSteps
  <2>2. QED
    BY <1>0, <2>1, OadSteps, SerialKept, Zenon
<1>3. I => OnlyWholeImages
  BY Zenon DEF OnlyWholeImages, OadInv, SerialInv
<1> HIDE DEF I
<1>4. QED
  BY <1>1, <1>2, <1>3, OnlySteps, PTL

\* The phones with a session and the keys in the store, as MCBleware's run
\* has them (state_machine_handlers.c, gatt_write.c, secrets.c, extflash.c).
THEOREM PhonesStayKnown == AnySpec => []PhonesAreKnown
<1> DEFINE I == /\ which = "sessions" => SessionsInv
                /\ which = "keys" => KeysInv
<1>0. S!SessionsAssumption /\ K!KeyStoreAssumption
  BY MCBlewareAssumption
<1>1. AnyInit => I
  BY <1>0, SessionsBegin, KeysBegin DEF AnyInit, SessionsInit, OadInit, SerialInit, KeysInit
<1>2. I /\ [AnyNext]_all => I'
  <2> SUFFICES ASSUME I, [AnyNext]_all PROVE I'
    OBVIOUS
  <2>1. /\ which' = which
        /\ which = "sessions" => [S!Next]_(S!vars)
        /\ which = "keys" => [K!Next]_(K!vars)
    BY BlewareSteps
  <2>2. QED
    BY <1>0, <2>1, SessionsKept, KeysSteps, Zenon
<1>3. I => PhonesAreKnown
  BY <1>0, SessionsSound, KeysSound, Zenon DEF PhonesAreKnown
<1> HIDE DEF I
<1>4. QED
  BY <1>1, <1>2, <1>3, OnlySteps, PTL

\* The values of every variable in MCBleware's run.  The clock of an entry
\* stops where the coprocessor resets itself, every queued message names an
\* entry of the table, a transfer stays in its slot, no message of the serial
\* line is handed over twice and a sector's pages end at its last one.
THEOREM BlewareTyped == AnySpec => []TypeOK
<1> DEFINE I == /\ which = "sessions" => SessionsInv /\ SessionsMore
                /\ which = "oad" => OadInv /\ O!TypeOK
                /\ which = "serial" => SerialInv /\ Handed /\ Y!TypeOK
                /\ which = "keys" => KeysInv /\ KeysMore
<1>0. S!SessionsAssumption /\ O!OadAssumption /\ Y!YmodemAssumption /\ K!KeyStoreAssumption
  BY MCBlewareAssumption
<1>1. AnyInit => I
  <2>1. /\ S!Init => SessionsInv /\ SessionsMore
        /\ O!Init => OadInv /\ O!TypeOK
        /\ Y!Init => SerialInv /\ Handed /\ Y!TypeOK
        /\ K!Init => KeysInv /\ KeysMore
    BY <1>0, SessionsBegin, SessionsTypesBegin, OadBegins, OadTypesBegin, SerialBegins,
       SerialTypesBegin, KeysBegin, KeysMoreBegins, Zenon
  <2>2. QED
    BY <2>1 DEF AnyInit, SessionsInit, OadInit, SerialInit, KeysInit
<1>2. I /\ [AnyNext]_all => I'
  <2> SUFFICES ASSUME I, [AnyNext]_all PROVE I'
    OBVIOUS
  <2>1. /\ which' = which
        /\ which = "sessions" => [S!Next]_(S!vars)
        /\ which = "oad" => [O!Next]_(O!vars)
        /\ which = "serial" => [Y!Next]_(Y!vars)
        /\ which = "keys" => [K!Next]_(K!vars)
    BY BlewareSteps
  <2>2. CASE which = "sessions"
    BY <1>0, <2>1, <2>2, SessionsKept, SessionsTypesKept
  <2>3. CASE which = "oad"
    BY <1>0, <2>1, <2>3, OadSteps, OadTypesKept
  <2>4. CASE which = "serial"
    BY <1>0, <2>1, <2>4, SerialKept, SerialTypesKept
  <2>5. CASE which = "keys"
    BY <1>0, <2>1, <2>5, KeysSteps, KeysMoreKept
  <2>6. CASE which \notin {"sessions", "oad", "serial", "keys"}
    BY <2>1, <2>6
  <2>7. QED
    BY <2>2, <2>3, <2>4, <2>5, <2>6
<1>3. I => TypeOK
  BY SessionsTyped, KeysTyped, Zenon DEF TypeOK
<1> HIDE DEF I
<1>4. QED
  BY <1>1, <1>2, <1>3, OnlySteps, PTL
=============================================================================
