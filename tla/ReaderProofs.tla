---------------------------- MODULE ReaderProofs ----------------------------
(***************************************************************************)
(* Proofs about the readers of the board: the bundle of documents built    *)
(* from a private copy of the database, the listing of the rows that is    *)
(* read in chunks, and the pages of a ranked query.                        *)
(***************************************************************************)
EXTENDS MCBoard, Queries, Federator, FiniteOrders

-----------------------------------------------------------------------------
(* The bundle of the board.                                                *)

Frame == [page : Page, version : Nat, last : BOOLEAN]
FrameOf(p, v, l) == [page |-> p, version |-> v, last |-> l]

\* The last n frames end with the transaction c; without a frame the file has it.
EndsWith(m, w, n, c) ==
  \/ n = 0 /\ \A p \in Page : m[p] = c
  \/ n >= 2 /\ w[n - 1] = FrameOf("p1", c, FALSE) /\ w[n] = FrameOf("p2", c, TRUE)
\* All of the WAL does, or all of it but the first page of the next one.
HoldsCommit(m, w, c) ==
  \/ EndsWith(m, w, Len(w), c)
  \/ Len(w) >= 1 /\ w[Len(w)] = FrameOf("p1", c + 1, FALSE) /\ EndsWith(m, w, Len(w) - 1, c)

CopyPc == {"idle", "begin", "main", "wal", "compare", "frozen", "failed"}
CopyRecord == [pc : CopyPc, attempt : Nat, walThere : BOOLEAN, moved : BOOLEAN,
               main : Seq(Nat), wal : Seq(Frame)]
ShowsOne(content) == \E v \in 0 .. committed : content = [p \in Page |-> v]

FilesType == /\ main \in [Page -> Nat] /\ wal \in Seq(Frame) /\ walThere \in BOOLEAN
             /\ committed \in Nat /\ jobs \in Nat
FilesHold == HoldsCommit(main, wal, committed) /\ (~walThere => wal = << >>)
\* A copy whose stamps did not move has what the files have.
CopyTrue(c) ==
  /\ c.pc = "main" => Len(c.main) < 2
  /\ c.pc \in {"wal", "compare", "frozen"} => Len(c.main) = 2
  /\ c.pc \in {"main", "wal", "compare"} /\ ~c.moved =>
       /\ \A n \in DOMAIN c.main : c.main[n] = main[PageOf[n]]
       /\ c.walThere = walThere
       /\ c.pc = "compare" => c.wal = wal
CopyType == copy \in [Copier -> CopyRecord]
CopiesTrue == \A t \in Copier : CopyTrue(copy[t])
FrozenOne == \A t \in Copier : copy[t].pc = "frozen" => ShowsOne(Frozen(t))
BuiltFrom ==
  /\ built \in Seq([db : [Page -> Nat], jobs : Nat])
  /\ copy["loop"].pc # "frozen" => built = << >>
  /\ \A i \in DOMAIN built : built[i].db = Frozen("loop")
ShownOne == \E v \in 0 .. committed : \A i \in DOMAIN documents : documents[i].db = [p \in Page |-> v]
BoardInv == FilesType /\ FilesHold /\ CopyType /\ CopiesTrue /\ FrozenOne /\ BuiltFrom /\ ShownOne

LEMMA GreatestIs ==
  ASSUME NEW S, S \subseteq Int, NEW k \in S, \A j \in S : j <= k
  PROVE  (CHOOSE i \in S : \A j \in S : j <= i) = k
<1> DEFINE g == CHOOSE i \in S : \A j \in S : j <= i
<1>1. g \in S /\ \A j \in S : j <= g
  OBVIOUS
<1>2. g <= k /\ k <= g /\ g \in Int /\ k \in Int
  BY <1>1
<1>3. g = k
  <2> HIDE DEF g
  <2> QED BY <1>2
<1> QED BY <1>3

\* What SQLite reads of files that hold a commit is that commit.
LEMMA ContentIsCommit ==
  ASSUME NEW m, NEW w \in Seq(Frame), NEW c \in Nat, HoldsCommit(m, w, c)
  PROVE  Content(m, w) = [p \in Page |-> c]
<1> DEFINE seen(p) == {i \in DOMAIN w : w[i].page = p /\ \E e \in DOMAIN w : i <= e /\ w[e].last}
           read(p) == IF seen(p) = {} THEN m[p]
                      ELSE w[CHOOSE i \in seen(p) : \A j \in seen(p) : j <= i].version
<1>1. PICK n \in Nat : Len(w) = n /\ DOMAIN w = 1 .. n
  OBVIOUS
<1>2. Content(m, w) = [p \in Page |-> read(p)]
  BY DEF Content
<1>3. CASE \A e \in DOMAIN w : ~w[e].last
  <2>1. ~(n >= 2 /\ w[n] = FrameOf("p2", c, TRUE))
    BY <1>1, <1>3 DEF FrameOf
  <2>2. ~(n - 1 >= 2 /\ w[n - 1] = FrameOf("p2", c, TRUE))
    BY <1>1, <1>3 DEF FrameOf
  <2>3. \A p \in Page : m[p] = c
    BY <1>1, <2>1, <2>2 DEF HoldsCommit, EndsWith
  <2>4. \A p \in Page : seen(p) = {}
    BY <1>3
  <2>5. \A p \in Page : read(p) = c
    BY <2>3, <2>4
  <2> HIDE DEF seen
  <2> QED BY <1>2, <2>5
<1>4. CASE \E e \in DOMAIN w : w[e].last
  <2>1. PICK k \in {n, n - 1} : /\ k >= 2 /\ k \in DOMAIN w /\ w[k - 1] = FrameOf("p1", c, FALSE)
                                /\ w[k] = FrameOf("p2", c, TRUE)
                                /\ k = n \/ w[n] = FrameOf("p1", c + 1, FALSE)
    <3>1. PICK e \in 1 .. n : w[e].last
      BY <1>1, <1>4
    <3>2. n # 0 /\ e \in Nat /\ n >= 1 /\ (n = 1 => e = 1)
      OBVIOUS
    <3>3. CASE EndsWith(m, w, n, c)
      <4>1. n >= 2 /\ w[n - 1] = FrameOf("p1", c, FALSE) /\ w[n] = FrameOf("p2", c, TRUE)
        BY <3>2, <3>3 DEF EndsWith
      <4>2. n \in 1 .. n
        BY <3>2
      <4> QED BY <1>1, <4>1, <4>2
    <3>4. CASE w[n] = FrameOf("p1", c + 1, FALSE) /\ EndsWith(m, w, n - 1, c)
      <4>1. e # n
        BY <3>1, <3>4 DEF FrameOf
      <4>2. n - 1 # 0
        BY <3>2, <4>1
      <4>3. n - 1 >= 2 /\ w[(n - 1) - 1] = FrameOf("p1", c, FALSE) /\ w[n - 1] = FrameOf("p2", c, TRUE)
        BY <3>4, <4>2 DEF EndsWith
      <4>4. n - 1 \in 1 .. n
        BY <4>3
      <4> QED BY <1>1, <3>4, <4>3, <4>4
    <3> QED BY <1>1, <3>3, <3>4 DEF HoldsCommit
  <2>2. k \in Int /\ n \in Int /\ k - 1 \in DOMAIN w
    BY <1>1, <2>1
  <2>3. w[k].page = "p2" /\ w[k].last /\ w[k].version = c /\ w[k - 1].page = "p1" /\ w[k - 1].version = c
    BY <2>1 DEF FrameOf
  <2>4. \A i \in DOMAIN w : (\E e \in DOMAIN w : i <= e /\ w[e].last) => i <= k
    <3> SUFFICES ASSUME NEW i \in DOMAIN w, NEW e \in DOMAIN w, i <= e, w[e].last PROVE i <= k
      OBVIOUS
    <3>1. k # n => e # n
      BY <2>1 DEF FrameOf
    <3> QED BY <1>1, <2>1, <2>2, <3>1
  <2>5. read("p2") = c
    <3>1. k \in seen("p2")
      <4>1. k \in DOMAIN w /\ k <= k
        BY <2>1, <2>2
      <4> QED BY <2>3, <4>1
    <3>2. seen("p2") \subseteq Int
      BY <1>1
    <3>3. \A j \in seen("p2") : j <= k
      BY <2>4
    <3> HIDE DEF seen
    <3> QED BY <2>3, <3>1, <3>2, <3>3, GreatestIs
  <2>6. read("p1") = c
    <3>1. k - 1 \in seen("p1")
      <4>1. k \in DOMAIN w /\ w[k].last
        BY <2>1, <2>3
      <4>2. k - 1 <= k
        BY <2>2
      <4> QED BY <2>2, <2>3, <4>1, <4>2
    <3>2. \A j \in seen("p1") : j <= k /\ j # k /\ j \in Int
      BY <1>1, <2>3, <2>4
    <3>3. seen("p1") \subseteq Int /\ \A j \in seen("p1") : j <= k - 1
      BY <2>2, <3>2
    <3> HIDE DEF seen
    <3> QED BY <2>3, <3>1, <3>3, GreatestIs
  <2> HIDE DEF seen
  <2> QED BY <1>2, <2>5, <2>6 DEF Page
<1> QED BY <1>3, <1>4

LEMMA NowIsCommit ==
  ASSUME FilesType, FilesHold
  PROVE  Now = [p \in Page |-> committed]
BY ContentIsCommit DEF FilesType, FilesHold, Now

\* The whole files copied show what the files show.
LEMMA FrozenIs ==
  ASSUME NEW m \in [Page -> Nat], NEW s \in Seq(Nat), Len(s) = 2,
         \A n \in DOMAIN s : s[n] = m[PageOf[n]]
  PROVE  [p \in Page |-> s[CHOOSE n \in DOMAIN PageOf : PageOf[n] = p]] = m
<1>1. DOMAIN s = {1, 2} /\ DOMAIN PageOf = {1, 2} /\ PageOf[1] = "p1" /\ PageOf[2] = "p2"
  BY DEF PageOf
<1>2. (CHOOSE n \in DOMAIN PageOf : PageOf[n] = "p1") = 1
  BY <1>1
<1>3. (CHOOSE n \in DOMAIN PageOf : PageOf[n] = "p2") = 2
  BY <1>1
<1> DEFINE page(p) == s[CHOOSE n \in DOMAIN PageOf : PageOf[n] = p]
<1>4. \A p \in Page : page(p) = m[p]
  BY <1>1, <1>2, <1>3 DEF Page
<1> HIDE DEF page
<1>5. [p \in Page |-> page(p)] = m
  BY <1>4
<1> QED BY <1>5 DEF page

LEMMA BoardInvInit == BoardInit => BoardInv
<1> SUFFICES ASSUME BoardInit PROVE BoardInv
  OBVIOUS
<1>1. FilesType
  BY DEF BoardInit, FilesType
<1>2. FilesHold
  BY DEF BoardInit, FilesHold, HoldsCommit, EndsWith
<1>3. CopyType
  BY DEF BoardInit, CopyType, CopyRecord, CopyPc, Resting
<1>4. CopiesTrue /\ FrozenOne
  BY DEF BoardInit, CopiesTrue, CopyTrue, FrozenOne, Resting
<1>5. BuiltFrom
  BY DEF BoardInit, BuiltFrom, Resting, Copier
<1>6. ShownOne
  BY <1>1, <1>2, NowIsCommit DEF BoardInit, ShownOne, DocOf
<1> QED BY <1>1, <1>2, <1>3, <1>4, <1>5, <1>6 DEF BoardInv

\* Whatever moves the files shows in the stamps, or the copy is done.
LEMMA FilesMove ==
  ASSUME BoardInv, FilesType', FilesHold', FileMoves, committed <= committed',
         UNCHANGED <<built, documents>>
  PROVE  BoardInv'
<1>1. CopyType'
  <2>1. ASSUME NEW c \in CopyRecord, NEW b \in BOOLEAN PROVE [c EXCEPT !.moved = b] \in CopyRecord
    BY DEF CopyRecord
  <2>2. \A t \in Copier : (copy[t].pc \in {"main", "wal", "compare"}) \in BOOLEAN
    OBVIOUS
  <2> QED BY <2>1, <2>2 DEF BoardInv, CopyType, FileMoves
<1>2. \A t \in Copier : /\ copy'[t].pc = copy[t].pc /\ copy'[t].main = copy[t].main /\ copy'[t].wal = copy[t].wal
                        /\ copy'[t].moved = (copy[t].pc \in {"main", "wal", "compare"})
  BY DEF BoardInv, CopyType, CopyRecord, FileMoves
<1>3. CopiesTrue'
  BY <1>2 DEF BoardInv, CopiesTrue, CopyTrue
<1>4. \A t \in Copier : Frozen(t)' = Frozen(t)
  BY <1>2 DEF Frozen
<1>5. \A v \in 0 .. committed : v \in 0 .. committed'
  BY DEF BoardInv, FilesType
<1>6. FrozenOne'
  BY <1>2, <1>4, <1>5 DEF BoardInv, FrozenOne, ShowsOne
<1>7. BuiltFrom'
  <2>1. "loop" \in Copier
    BY DEF Copier
  <2> QED BY <1>2, <1>4, <2>1 DEF BoardInv, BuiltFrom
<1>8. ShownOne'
  BY <1>5 DEF BoardInv, ShownOne
<1> QED BY <1>1, <1>3, <1>6, <1>7, <1>8 DEF BoardInv

LEMMA FrameKeepsBoard ==
  ASSUME BoardInv, NEW operator \in BOOLEAN, FrameWritten(operator)
  PROVE  BoardInv'
<1> DEFINE n == Len(wal)
           frame == FrameOf(IF ~Quiet THEN "p2" ELSE "p1", committed + 1, ~Quiet)
<1>1. n \in Nat /\ wal' = Append(wal, frame) /\ committed \in Nat /\ wal \in Seq(Frame)
  BY DEF FrameWritten, FrameOf, BoardInv, FilesType
<1>2. frame \in Frame
  BY <1>1 DEF Frame, FrameOf, Page, Quiet
<1>3. FilesType'
  BY <1>1, <1>2 DEF FrameWritten, BoardInv, FilesType
<1>4. Len(wal') = n + 1 /\ wal'[n + 1] = frame /\ \A i \in 1 .. n : wal'[i] = wal[i]
  BY <1>1, <1>2
<1>5. main' = main /\ walThere' /\ committed' = IF Quiet THEN committed ELSE committed + 1
  BY DEF FrameWritten
<1>6. Quiet => EndsWith(main, wal, n, committed)
  BY <1>1 DEF BoardInv, FilesHold, HoldsCommit, Quiet, FrameOf
<1>7. ~Quiet => n >= 1 /\ wal[n] = FrameOf("p1", committed + 1, FALSE)
  BY <1>1 DEF BoardInv, FilesHold, HoldsCommit, EndsWith, Quiet, FrameOf
<1>8. FilesHold'
  <2>1. CASE Quiet
    <3>1. EndsWith(main', wal', n, committed')
      <4>1. n >= 2 => n - 1 \in 1 .. n /\ n \in 1 .. n
        BY <1>1
      <4> HIDE DEF n
      <4> QED BY <1>4, <1>5, <1>6, <2>1, <4>1 DEF EndsWith
    <3>2. wal'[n + 1] = FrameOf("p1", committed' + 1, FALSE)
      BY <1>4, <1>5, <2>1
    <3>3. Len(wal') >= 1 /\ Len(wal') - 1 = n
      BY <1>1, <1>4
    <3> HIDE DEF n
    <3> QED BY <1>4, <1>5, <3>1, <3>2, <3>3 DEF FilesHold, HoldsCommit
  <2>2. CASE ~Quiet
    <3>1. wal'[n] = FrameOf("p1", committed', FALSE) /\ wal'[n + 1] = FrameOf("p2", committed', TRUE)
      <4>1. n \in 1 .. n
        BY <1>1, <1>7, <2>2
      <4> QED BY <1>4, <1>5, <1>7, <2>2, <4>1
    <3>2. n + 1 >= 2 /\ (n + 1) - 1 = n
      BY <1>1, <1>7, <2>2
    <3>3. EndsWith(main', wal', n + 1, committed')
      BY <3>1, <3>2 DEF EndsWith
    <3> QED BY <1>4, <1>5, <3>3 DEF FilesHold, HoldsCommit
  <2> QED BY <2>1, <2>2
<1>9. committed <= committed'
  BY <1>1, <1>5
<1> QED BY <1>3, <1>8, <1>9, FilesMove DEF FrameWritten, Elsewhere

LEMMA CheckpointKeepsBoard ==
  ASSUME BoardInv, NEW p \in Page, Checkpoint(p)
  PROVE  BoardInv'
<1>1. Now = [q \in Page |-> committed]
  BY NowIsCommit DEF BoardInv
<1>2. main' = [main EXCEPT ![p] = committed] /\ UNCHANGED <<wal, walThere, committed, jobs>>
  BY <1>1 DEF Checkpoint
<1>3. FilesType'
  BY <1>2 DEF BoardInv, FilesType
<1>4. \A n : EndsWith(main, wal, n, committed) => EndsWith(main', wal', n, committed')
  BY <1>2 DEF EndsWith, BoardInv, FilesType
<1>5. FilesHold'
  BY <1>2, <1>4 DEF BoardInv, FilesHold, HoldsCommit
<1>6. committed <= committed'
  BY <1>2 DEF BoardInv, FilesType
<1> QED BY <1>3, <1>5, <1>6, FilesMove DEF Checkpoint, Elsewhere

LEMMA WalEndKeepsBoard ==
  ASSUME BoardInv, NEW removed \in BOOLEAN, WalEnds(removed)
  PROVE  BoardInv'
<1>1. Now = [q \in Page |-> committed]
  BY NowIsCommit DEF BoardInv
<1>2. UNCHANGED <<main, committed, jobs>> /\ wal' = << >> /\ walThere' = ~removed
  BY DEF WalEnds
<1>3. FilesType'
  BY <1>2 DEF BoardInv, FilesType
<1>4. \A q \in Page : main'[q] = committed'
  BY <1>1, <1>2 DEF WalEnds
<1>5. FilesHold'
  BY <1>2, <1>4 DEF FilesHold, HoldsCommit, EndsWith
<1>6. committed <= committed'
  BY <1>2 DEF BoardInv, FilesType
<1> QED BY <1>3, <1>5, <1>6, FilesMove DEF WalEnds, Elsewhere

\* The files stand, and one copier moves on.
LEMMA CopierMoves ==
  ASSUME BoardInv, NEW t \in Copier, NEW c \in CopyRecord, copy' = [copy EXCEPT ![t] = c],
         UNCHANGED <<main, wal, walThere, committed, jobs, built, documents>>,
         CopyTrue(c),
         c.pc = "frozen" => ShowsOne(Content([p \in Page |-> c.main[CHOOSE n \in DOMAIN PageOf : PageOf[n] = p]], c.wal)),
         t = "loop" => copy["loop"].pc # "frozen"
  PROVE  BoardInv'
<1>1. FilesType' /\ FilesHold' /\ ShownOne'
  BY DEF BoardInv, FilesType, FilesHold, ShownOne
<1>2. CopyType' /\ copy'[t] = c /\ \A o \in Copier \ {t} : copy'[o] = copy[o]
  BY DEF BoardInv, CopyType
<1>3. CopiesTrue'
  BY <1>2 DEF BoardInv, CopiesTrue, CopyTrue
<1>4. \A o \in Copier \ {t} : Frozen(o)' = Frozen(o)
  BY <1>2 DEF Frozen
<1>5. FrozenOne'
  <2> SUFFICES ASSUME NEW o \in Copier, copy'[o].pc = "frozen" PROVE ShowsOne(Frozen(o))'
    BY DEF FrozenOne
  <2>1. CASE o = t
    BY <1>2, <2>1 DEF Frozen, ShowsOne
  <2>2. CASE o # t
    BY <1>2, <1>4, <2>2 DEF BoardInv, FrozenOne, ShowsOne
  <2> QED BY <2>1, <2>2
<1>6. BuiltFrom'
  <2>1. "loop" \in Copier
    BY DEF Copier
  <2>2. CASE t = "loop"
    <3>1. built = << >> /\ built' = << >>
      BY <2>2 DEF BoardInv, BuiltFrom
    <3> QED BY <3>1 DEF BuiltFrom
  <2>3. CASE t # "loop"
    BY <1>2, <1>4, <2>1, <2>3 DEF BoardInv, BuiltFrom
  <2> QED BY <2>2, <2>3
<1> QED BY <1>1, <1>2, <1>3, <1>5, <1>6 DEF BoardInv

LEMMA RestingTyped ==
  ASSUME NEW pc \in CopyPc, NEW n \in Nat, NEW b \in BOOLEAN
  PROVE  /\ Resting \in CopyRecord
         /\ [Resting EXCEPT !.pc = pc, !.attempt = n] \in CopyRecord
         /\ [Resting EXCEPT !.pc = pc] \in CopyRecord
         /\ [Resting EXCEPT !.pc = pc, !.attempt = n, !.walThere = b] \in CopyRecord
<1>1. Resting \in CopyRecord
  BY DEF Resting, CopyRecord, CopyPc
<1>2. [Resting EXCEPT !.pc = pc, !.attempt = n] \in CopyRecord
  BY <1>1 DEF CopyRecord
<1>3. [Resting EXCEPT !.pc = pc, !.attempt = n, !.walThere = b] \in CopyRecord
  BY <1>1 DEF CopyRecord
<1>4. [Resting EXCEPT !.pc = pc] \in CopyRecord
  BY <1>1 DEF CopyRecord
<1> QED BY <1>1, <1>2, <1>3, <1>4

LEMMA AgainIs ==
  ASSUME NEW t \in Copier, BoardInv, Again(t)
  PROVE  \E c \in CopyRecord : copy' = [copy EXCEPT ![t] = c] /\ c.pc \in {"failed", "begin"}
<1> DEFINE c == [Resting EXCEPT !.pc = IF copy[t].attempt = MaxAttempt THEN "failed" ELSE "begin",
                                !.attempt = copy[t].attempt]
<1>1. copy[t].attempt \in Nat
  BY DEF CopyRecord, BoardInv, CopyType
<1>2. c \in CopyRecord
  BY <1>1, RestingTyped DEF CopyPc
<1>3. c.pc \in {"failed", "begin"}
  BY DEF Resting
<1> QED BY <1>2, <1>3 DEF Again

LEMMA CopyStepKeepsBoard ==
  ASSUME BoardInv, NEW t \in Copier, CopyStep(t)
  PROVE  BoardInv'
<1>0. /\ copy[t] \in CopyRecord /\ FilesType /\ FilesHold /\ CopyTrue(copy[t])
      /\ (t = "loop" => copy["loop"].pc = copy[t].pc)
  BY DEF BoardInv, CopyType, CopiesTrue
<1>1. ASSUME Again(t), Copies, copy[t].pc # "frozen" PROVE BoardInv'
  BY <1>0, <1>1, AgainIs, CopierMoves DEF Copies, sqliteVars, CopyTrue
<1>2. CASE TakesStamps(t)
  <2> DEFINE c == [Resting EXCEPT !.pc = "main", !.attempt = copy[t].attempt + 1, !.walThere = walThere]
  <2>1. c \in CopyRecord
    <3>1. copy[t].attempt + 1 \in Nat /\ walThere \in BOOLEAN
      BY <1>0 DEF CopyRecord, FilesType
    <3> QED BY <3>1, RestingTyped DEF CopyPc
  <2>2. c.pc = "main" /\ c.main = << >> /\ c.walThere = walThere
    BY DEF Resting
  <2>3. CopyTrue(c)
    BY <2>2 DEF CopyTrue
  <2> QED BY <1>0, <1>2, <2>1, <2>2, <2>3, CopierMoves DEF TakesStamps, Copies, sqliteVars
<1>3. CASE CopiesMain(t)
  <2> DEFINE n == Len(copy[t].main) + 1
             c == [copy[t] EXCEPT !.main = Append(copy[t].main, main[PageOf[n]]),
                                  !.pc = IF n = Len(PageOf) THEN "wal" ELSE "main"]
  <2>1. copy[t].pc = "main" /\ Len(copy[t].main) \in Nat /\ Len(copy[t].main) < 2 /\ copy[t].main \in Seq(Nat)
    BY <1>0, <1>3 DEF CopiesMain, CopyTrue, CopyRecord
  <2>2. n \in {1, 2} /\ Len(PageOf) = 2 /\ main[PageOf[n]] \in Nat
    BY <1>0, <2>1 DEF PageOf, Page, FilesType
  <2>3. c \in CopyRecord
    <3>1. Append(copy[t].main, main[PageOf[n]]) \in Seq(Nat)
      BY <2>1, <2>2
    <3> QED BY <1>0, <3>1 DEF CopyRecord, CopyPc
  <2>4. /\ c.main = Append(copy[t].main, main[PageOf[n]]) /\ c.pc = IF n = 2 THEN "wal" ELSE "main"
        /\ c.moved = copy[t].moved /\ c.walThere = copy[t].walThere
    BY <1>0, <2>2 DEF CopyRecord
  <2>5. /\ Len(c.main) = n /\ DOMAIN c.main = 1 .. n /\ c.main[n] = main[PageOf[n]]
        /\ \A i \in 1 .. n - 1 : c.main[i] = copy[t].main[i] /\ i \in DOMAIN copy[t].main
    BY <2>1, <2>4
  <2>6. CopyTrue(c)
    <3>1. ~c.moved => \A i \in DOMAIN c.main : c.main[i] = main[PageOf[i]]
      <4>1. ASSUME ~c.moved, NEW i \in 1 .. n PROVE c.main[i] = main[PageOf[i]]
        <5>1. CASE i = n
          BY <2>5, <5>1
        <5>2. CASE i # n
          <6>1. i \in 1 .. n - 1
            BY <2>2, <5>2
          <6> QED BY <1>0, <2>1, <2>4, <2>5, <4>1, <6>1 DEF CopyTrue
        <5> QED BY <5>1, <5>2
      <4> QED BY <2>5, <4>1
    <3>2. ~c.moved => c.walThere = walThere
      BY <1>0, <2>1, <2>4 DEF CopyTrue
    <3>3. c.pc \in {"main", "wal"} /\ (c.pc = "main" => Len(c.main) < 2) /\ (c.pc = "wal" => Len(c.main) = 2)
      BY <2>2, <2>4, <2>5
    <3> HIDE DEF c
    <3> QED BY <3>1, <3>2, <3>3 DEF CopyTrue
  <2>7. copy' = [copy EXCEPT ![t] = c]
    BY <1>3 DEF CopiesMain
  <2>8. c.pc # "frozen" /\ copy[t].pc # "frozen"
    BY <2>1, <2>4
  <2> HIDE DEF c
  <2> QED BY <1>0, <1>3, <2>3, <2>6, <2>7, <2>8, CopierMoves DEF CopiesMain, Copies, sqliteVars
<1>4. CASE CopiesWal(t)
  <2>1. CASE copy[t].walThere /\ ~walThere
    BY <1>1, <1>4, <2>1 DEF CopiesWal
  <2>2. CASE ~(copy[t].walThere /\ ~walThere)
    <3> DEFINE c == [copy[t] EXCEPT !.wal = IF copy[t].walThere THEN wal ELSE << >>, !.pc = "compare"]
    <3>1. copy' = [copy EXCEPT ![t] = c] /\ copy[t].pc = "wal"
      BY <1>4, <2>2 DEF CopiesWal
    <3>2. c \in CopyRecord
      <4>1. (IF copy[t].walThere THEN wal ELSE << >>) \in Seq(Frame) /\ "compare" \in CopyPc
        BY <1>0 DEF FilesType, CopyPc
      <4> QED BY <1>0, <4>1 DEF CopyRecord
    <3>3. /\ c.pc = "compare" /\ c.main = copy[t].main /\ c.moved = copy[t].moved
          /\ c.walThere = copy[t].walThere /\ c.wal = IF copy[t].walThere THEN wal ELSE << >>
      BY <1>0 DEF CopyRecord
    <3>4. ~c.moved => c.walThere = walThere /\ c.wal = wal
      BY <1>0, <3>1, <3>3 DEF CopyTrue, FilesHold
    <3>5. CopyTrue(c)
      BY <1>0, <3>1, <3>3, <3>4 DEF CopyTrue
    <3> HIDE DEF c
    <3> QED BY <1>0, <1>4, <3>1, <3>2, <3>3, <3>5, CopierMoves DEF CopiesWal, Copies, sqliteVars
  <2> QED BY <2>1, <2>2
<1>5. CASE Compares(t)
  <2>1. CASE ~Unmoved(t)
    BY <1>1, <1>5, <2>1 DEF Compares
  <2>2. CASE Unmoved(t)
    <3> DEFINE c == [copy[t] EXCEPT !.pc = "frozen"]
    <3>1. copy' = [copy EXCEPT ![t] = c] /\ copy[t].pc = "compare" /\ ~copy[t].moved
      BY <1>5, <2>2 DEF Compares, To, Unmoved
    <3>2. c \in CopyRecord /\ c.pc = "frozen" /\ c.main = copy[t].main /\ c.wal = copy[t].wal
      BY <1>0 DEF CopyRecord, CopyPc
    <3>3. /\ c.wal = wal /\ c.main \in Seq(Nat) /\ Len(c.main) = 2
          /\ \A i \in DOMAIN c.main : c.main[i] = main[PageOf[i]]
      BY <1>0, <3>1, <3>2 DEF CopyTrue, CopyRecord
    <3>4. [p \in Page |-> c.main[CHOOSE i \in DOMAIN PageOf : PageOf[i] = p]] = main
      <4> HIDE DEF c
      <4> QED BY <1>0, <3>3, FrozenIs DEF FilesType
    <3>5. Content(main, wal) = [p \in Page |-> committed]
      BY <1>0, NowIsCommit DEF Now
    <3>6. committed \in 0 .. committed
      BY <1>0 DEF FilesType
    <3>7. CopyTrue(c)
      BY <3>2, <3>3 DEF CopyTrue
    <3>8. ShowsOne(Content([p \in Page |-> c.main[CHOOSE i \in DOMAIN PageOf : PageOf[i] = p]], c.wal))
      BY <3>3, <3>4, <3>5, <3>6 DEF ShowsOne
    <3> HIDE DEF c
    <3> QED BY <1>0, <1>5, <3>1, <3>2, <3>7, <3>8, CopierMoves DEF Compares, Copies, sqliteVars
  <2> QED BY <2>1, <2>2
<1> QED BY <1>2, <1>3, <1>4, <1>5 DEF CopyStep

LEMMA RefreshKeepsBoard ==
  ASSUME BoardInv, RefreshOnce
  PROVE  BoardInv'
<1>1. "loop" \in Copier /\ copy["loop"].pc = "idle" /\ built = << >>
  BY DEF RefreshOnce, Copier, BoardInv, BuiltFrom
<1> DEFINE c == [Resting EXCEPT !.pc = "begin"]
<1>2. c \in CopyRecord /\ c.pc = "begin"
  BY RestingTyped DEF Resting, CopyPc
<1>3. CopyTrue(c)
  BY <1>2 DEF CopyTrue
<1> HIDE DEF c
<1>4. copy' = [copy EXCEPT !["loop"] = c]
  BY DEF RefreshOnce, c
<1> QED BY <1>1, <1>2, <1>3, <1>4, CopierMoves DEF RefreshOnce, sqliteVars

LEMMA BuildKeepsBoard ==
  ASSUME BoardInv, BuildDocument
  PROVE  BoardInv'
<1>1. "loop" \in Copier /\ copy["loop"].pc = "frozen" /\ UNCHANGED <<main, wal, walThere, committed, jobs, copy, documents>>
  BY DEF BuildDocument, Copier, sqliteVars
<1>2. FilesType' /\ FilesHold' /\ CopyType' /\ ShownOne' /\ CopiesTrue'
  BY <1>1 DEF BoardInv, FilesType, FilesHold, CopyType, ShownOne, CopiesTrue, CopyTrue
<1>3. \A t \in Copier : Frozen(t)' = Frozen(t)
  BY <1>1 DEF Frozen
<1>4. FrozenOne'
  BY <1>1, <1>3 DEF BoardInv, FrozenOne, ShowsOne
<1>5. BuiltFrom'
  <2>1. PICK j \in {jobs, 0} : built' = Append(built, DocOf(Frozen("loop"), j))
    BY DEF BuildDocument, SourceOfBuild
  <2>2. Frozen("loop") \in [Page -> Nat] /\ j \in Nat
    <3>1. PICK v \in 0 .. committed : Frozen("loop") = [p \in Page |-> v]
      BY <1>1 DEF BoardInv, FrozenOne, ShowsOne
    <3> QED BY <3>1 DEF BoardInv, FilesType
  <2>3. DocOf(Frozen("loop"), j) \in [db : [Page -> Nat], jobs : Nat] /\ DocOf(Frozen("loop"), j).db = Frozen("loop")
    BY <2>2 DEF DocOf
  <2>4. built \in Seq([db : [Page -> Nat], jobs : Nat]) /\ \A i \in DOMAIN built : built[i].db = Frozen("loop")
    BY DEF BoardInv, BuiltFrom
  <2>5. built' \in Seq([db : [Page -> Nat], jobs : Nat])
    BY <2>1, <2>3, <2>4
  <2>6. \A i \in DOMAIN built' : built'[i].db = Frozen("loop")
    <3>1. /\ DOMAIN built' = 1 .. Len(built) + 1 /\ built'[Len(built) + 1] = DocOf(Frozen("loop"), j)
          /\ DOMAIN built = 1 .. Len(built) /\ Len(built) \in Nat
          /\ \A i \in 1 .. Len(built) : built'[i] = built[i]
      BY <2>1, <2>3, <2>4
    <3>2. \A i \in 1 .. Len(built) + 1 : i \in 1 .. Len(built) \/ i = Len(built) + 1
      BY <3>1
    <3> QED BY <2>3, <2>4, <3>1, <3>2
  <2> QED BY <1>1, <1>3, <2>5, <2>6 DEF BuiltFrom
<1> QED BY <1>2, <1>4, <1>5 DEF BoardInv

LEMMA RestKeepsBoard ==
  ASSUME BoardInv, copy' = [copy EXCEPT !["loop"] = Resting], built' = << >>,
         UNCHANGED <<main, wal, walThere, committed, jobs>>, ShownOne'
  PROVE  BoardInv'
<1>1. FilesType' /\ FilesHold'
  BY DEF BoardInv, FilesType, FilesHold
<1>2. CopyTrue(Resting) /\ Resting.pc = "idle" /\ Resting \in CopyRecord
  BY RestingTyped DEF CopyTrue, Resting, CopyPc
<1>3. CopyType' /\ copy'["loop"] = Resting /\ \A o \in Copier \ {"loop"} : copy'[o] = copy[o]
  BY <1>2 DEF BoardInv, CopyType, Copier
<1>4. CopiesTrue'
  BY <1>2, <1>3 DEF BoardInv, CopiesTrue, CopyTrue
<1>5. \A o \in Copier \ {"loop"} : Frozen(o)' = Frozen(o)
  BY <1>3 DEF Frozen
<1>6. FrozenOne'
  BY <1>2, <1>3, <1>5 DEF BoardInv, FrozenOne, ShowsOne
<1>7. BuiltFrom'
  BY DEF BuiltFrom
<1> QED BY <1>1, <1>3, <1>4, <1>6, <1>7 DEF BoardInv

LEMMA PublishKeepsBoard ==
  ASSUME BoardInv, Publish
  PROVE  BoardInv'
<1>1. PICK v \in 0 .. committed : Frozen("loop") = [p \in Page |-> v]
  BY DEF Publish, BoardInv, FrozenOne, ShowsOne, Copier
<1>2. ShownOne'
  BY <1>1 DEF Publish, BoardInv, BuiltFrom, ShownOne, sqliteVars
<1> QED BY <1>2, RestKeepsBoard DEF Publish, sqliteVars

LEMMA FailureKeepsBoard ==
  ASSUME BoardInv, RefreshFails
  PROVE  BoardInv'
<1>1. ShownOne'
  BY DEF RefreshFails, BoardInv, ShownOne, sqliteVars
<1> QED BY <1>1, RestKeepsBoard DEF RefreshFails, sqliteVars

LEMMA ScrapeKeepsBoard ==
  ASSUME BoardInv, ScrapeBegins \/ ScrapeEnds
  PROVE  BoardInv'
<1>1. PICK c \in {Resting, [Resting EXCEPT !.pc = "begin"]} : copy' = [copy EXCEPT !["scrape"] = c]
  BY DEF ScrapeBegins, ScrapeEnds
<1>2. c \in CopyRecord /\ CopyTrue(c) /\ c.pc # "frozen"
  <2>1. c \in CopyRecord
    BY RestingTyped DEF CopyPc
  <2>2. c.pc \in {"idle", "begin"}
    BY DEF Resting
  <2> QED BY <2>1, <2>2 DEF CopyTrue
<1> QED BY <1>1, <1>2, CopierMoves DEF ScrapeBegins, ScrapeEnds, sqliteVars, Copier

LEMMA BoardInvKept == BoardInv /\ [BoardNext \/ ScrapeNext]_boardVars => BoardInv'
<1> SUFFICES ASSUME BoardInv, [BoardNext \/ ScrapeNext]_boardVars PROVE BoardInv'
  OBVIOUS
<1>1. ASSUME UNCHANGED <<main, wal, walThere, committed, copy, built, documents>>, jobs' \in Nat
      PROVE  BoardInv'
  <2>1. FilesType' /\ FilesHold' /\ CopyType' /\ CopiesTrue' /\ ShownOne'
    BY <1>1 DEF BoardInv, FilesType, FilesHold, CopyType, CopiesTrue, CopyTrue, ShownOne
  <2>2. \A t \in Copier : Frozen(t)' = Frozen(t)
    BY <1>1 DEF Frozen
  <2>3. FrozenOne'
    BY <1>1, <2>2 DEF BoardInv, FrozenOne, ShowsOne
  <2>4. BuiltFrom'
    BY <1>1, <2>2 DEF BoardInv, BuiltFrom, Copier
  <2> QED BY <2>1, <2>3, <2>4 DEF BoardInv
<1>2. CASE Writers
  <2>1. CASE JobMoves
    BY <1>1, <2>1 DEF JobMoves, Elsewhere, BoardInv, FilesType
  <2> QED BY <1>2, <2>1, FrameKeepsBoard, CheckpointKeepsBoard, WalEndKeepsBoard DEF Writers
<1>3. CASE CopyStep("loop") \/ CopyStep("scrape")
  BY <1>3, CopyStepKeepsBoard DEF Copier
<1>4. CASE OperatorDone \/ TimeComes \/ UNCHANGED boardVars
  BY <1>1, <1>4 DEF OperatorDone, TimeComes, boardVars, sqliteVars, BoardInv, FilesType
<1> QED BY <1>2, <1>3, <1>4, RefreshKeepsBoard, BuildKeepsBoard, PublishKeepsBoard, FailureKeepsBoard,
           ScrapeKeepsBoard DEF BoardNext, ScrapeNext

LEMMA BoardInvAgrees == BoardInv => BundleAgrees
BY DEF BoardInv, ShownOne, BundleAgrees, Bundle

-----------------------------------------------------------------------------
(* The listing of the board.                                               *)

RowShape == {As(k, u) : k \in Kinds, u \in Nat}
Status == {"queued", "running", "done", "attention"}
Answer == Listed \X Status \X Nat
Listings == [pc : {"idle", "scan", "done"}, at : Nat, live : SUBSET Listed, wanted : Wanted \cup {{}},
             limit : Nat, after : {<< >>} \cup (Nat \X Nat), got : Seq(Answer), touched : SUBSET Listed]
RowsType ==
  /\ moment \in Nat /\ tableRow \in [Listed -> RowShape]
  /\ listing \in Listings
NoneAhead == \A w \in Listed : tableRow[w].updated <= moment

\* The mark of the scan is at or after a row of time u and id w.
Past(u, w, after) == after # << >> /\ ~(u < after[1]) /\ ~(u = after[1] /\ w > after[2])
GotIsPast ==
  \A i \in DOMAIN listing.got :
    LET g == listing.got[i] IN g[3] <= tableRow[g[1]].updated /\ Past(g[3], g[1], listing.after)
GotOnce == \A i, j \in DOMAIN listing.got : listing.got[i][1] = listing.got[j][1] => i = j

Unwanted(w) == listing.wanted # {} /\ StatusNow(w) \notin listing.wanted
Answered(w) == \E i \in DOMAIN listing.got : listing.got[i][1] = w /\ listing.got[i][2] = StatusNow(w)
AllSoFar ==
  listing.pc = "scan" =>
    /\ listing.limit # 0 => Len(listing.got) < listing.limit
    /\ \A w \in Listed \ listing.touched : ~Remaining(w) => Unwanted(w) \/ Answered(w)
RowsInv == RowsType /\ NoneAhead /\ GotIsPast /\ GotOnce /\ AllSoFar /\ ScanMissesNothingStill

\* BoardOrder as a set of pairs.
RowOrder == {p \in Listed \X Listed : BoardOrder(p[1], p[2])}

LEMMA RowOrders ==
  ASSUME RowsType, NEW S, S \subseteq Listed
  PROVE  IsFiniteSet(S) /\ Orders(RowOrder, S) /\ \A v, w \in Listed : <<v, w>> \in RowOrder <=> BoardOrder(v, w)
<1>1. IsFiniteSet(S)
  BY ListedAssumption, FS_Subset
<1>2. \A w \in Listed : w \in Nat /\ tableRow[w].updated \in Nat
  BY ListedAssumption DEF RowsType, RowShape, As
<1>3. \A v, w \in Listed : <<v, w>> \in RowOrder <=> BoardOrder(v, w)
  BY DEF RowOrder
<1>4. \A x, y \in Listed : x # y => BoardOrder(x, y) \/ BoardOrder(y, x)
  BY <1>2 DEF BoardOrder
<1>5. \A x, y, z \in Listed : BoardOrder(x, y) /\ BoardOrder(y, z) => BoardOrder(x, z)
  BY <1>2 DEF BoardOrder
<1>6. \A x \in Listed : ~BoardOrder(x, x)
  BY <1>2 DEF BoardOrder
<1> QED BY <1>1, <1>3, <1>4, <1>5, <1>6 DEF Orders

LEMMA RowsInvInit == RowsInit => RowsInv
<1> SUFFICES ASSUME RowsInit PROVE RowsInv
  OBVIOUS
<1>1. RowsType
  BY DEF RowsInit, RowsType, Listings, RowShape, NoScan
<1>2. NoneAhead
  BY DEF RowsInit, NoneAhead, As
<1> QED BY <1>1, <1>2 DEF RowsInv, RowsInit, GotIsPast, GotOnce, AllSoFar, ScanMissesNothingStill, NoScan

\* A row's time never goes back, so that what was passed stays passed.
LEMMA PastStaysPast ==
  ASSUME NEW u \in Nat, NEW v \in Nat, u <= v, NEW w \in Nat, NEW after \in {<< >>} \cup (Nat \X Nat), Past(u, w, after)
  PROVE  Past(v, w, after)
BY DEF Past

LEMMA WriteKeepsRows ==
  ASSUME RowsInv, NEW w \in Listed, NEW kind \in Kinds, Writes(w, kind)
  PROVE  RowsInv'
<1> DEFINE row == As(kind, moment)
<1>1. row \in RowShape /\ row.updated = moment /\ moment \in Nat
  BY DEF RowsInv, RowsType, Listings, RowShape, As
<1>2. tableRow' = [tableRow EXCEPT ![w] = row] /\ moment' = moment /\ listing.pc = "scan"
  BY DEF Writes
<1>3. listing' = [listing EXCEPT !.touched = listing.touched \cup {w}]
  BY DEF Writes
<1> HIDE DEF row
<1>4. RowsType'
  BY <1>1, <1>2, <1>3 DEF RowsInv, RowsType, Listings
<1>5. /\ listing'.pc = listing.pc /\ listing'.at = listing.at /\ listing'.live = listing.live
      /\ listing'.wanted = listing.wanted /\ listing'.limit = listing.limit /\ listing'.after = listing.after
      /\ listing'.got = listing.got /\ listing'.touched = listing.touched \cup {w}
  BY <1>3 DEF RowsInv, RowsType, Listings
<1>6. /\ \A v \in Listed \ {w} : tableRow'[v] = tableRow[v]
      /\ tableRow'[w] = row
  BY <1>2 DEF RowsInv, RowsType, Listings
<1>7. \A v \in Listed : tableRow[v].updated <= tableRow'[v].updated
  <2>1. \A v \in Listed : tableRow[v].updated \in Nat
    BY DEF RowsInv, RowsType, Listings, RowShape, As
  <2> QED BY <1>1, <1>6, <2>1 DEF RowsInv, NoneAhead
<1>8. NoneAhead'
  BY <1>1, <1>2, <1>6 DEF RowsInv, NoneAhead
<1>9. GotIsPast'
  <2> SUFFICES ASSUME NEW i \in DOMAIN listing.got
               PROVE  /\ listing.got[i][3] <= tableRow'[listing.got[i][1]].updated
                      /\ Past(listing.got[i][3], listing.got[i][1], listing.after)
    BY <1>5 DEF GotIsPast
  <2>1. listing.got[i] \in Answer
    BY DEF RowsInv, RowsType, Listings
  <2>2. \A v \in Listed : tableRow[v].updated \in Nat /\ tableRow'[v].updated \in Nat
    BY <1>4 DEF RowsInv, RowsType, Listings, RowShape, As
  <2>3. listing.got[i][1] \in Listed /\ listing.got[i][3] \in Nat
    BY <2>1 DEF Answer
  <2> QED BY <1>7, <2>2, <2>3 DEF RowsInv, GotIsPast
<1>10. GotOnce'
  BY <1>5 DEF RowsInv, GotOnce
<1>11. \A v \in Listed \ {w} : /\ StatusNow(v)' = StatusNow(v) /\ Remaining(v)' = Remaining(v)
                               /\ Unwanted(v)' = Unwanted(v) /\ Answered(v)' = Answered(v)
  BY <1>5, <1>6 DEF StatusNow, Remaining, Unwanted, Answered
<1>12. AllSoFar'
  BY <1>5, <1>11 DEF RowsInv, AllSoFar
<1>13. ScanMissesNothingStill'
  BY <1>2, <1>5 DEF ScanMissesNothingStill
<1> QED BY <1>4, <1>8, <1>9, <1>10, <1>12, <1>13 DEF RowsInv

LEMMA OthersKeepRows ==
  ASSUME RowsInv, MomentPasses \/ ScanAnswered \/ \E wanted \in Wanted, limit \in Limits : ScanBegins(wanted, limit)
  PROVE  RowsInv'
<1>1. CASE MomentPasses
  <2>1. UNCHANGED <<tableRow, listing>> /\ moment' = moment + 1 /\ moment \in Nat
    BY <1>1 DEF MomentPasses, RowsInv, RowsType, Listings
  <2>2. \A w \in Listed : tableRow[w].updated \in Nat
    BY DEF RowsInv, RowsType, Listings, RowShape, As
  <2>3. RowsType' /\ NoneAhead'
    BY <2>1, <2>2 DEF RowsInv, RowsType, NoneAhead
  <2>4. GotIsPast' /\ GotOnce'
    BY <2>1 DEF RowsInv, GotIsPast, GotOnce
  <2>5. \A w : StatusNow(w)' = StatusNow(w) /\ Remaining(w)' = Remaining(w)
    BY <2>1 DEF StatusNow, Remaining
  <2>6. AllSoFar'
    BY <2>1, <2>5 DEF RowsInv, AllSoFar, Unwanted, Answered
  <2>7. ScanMissesNothingStill'
    BY <2>1, <2>5 DEF RowsInv, ScanMissesNothingStill
  <2> QED BY <2>3, <2>4, <2>6, <2>7 DEF RowsInv
<1>2. CASE ScanAnswered
  <2>1. listing' = NoScan /\ UNCHANGED <<moment, tableRow>>
    BY <1>2 DEF ScanAnswered
  <2>2. RowsType' /\ NoneAhead'
    BY <2>1 DEF RowsInv, RowsType, Listings, NoneAhead, NoScan
  <2> QED BY <2>1, <2>2 DEF RowsInv, GotIsPast, GotOnce, AllSoFar, ScanMissesNothingStill, NoScan
<1>3. ASSUME NEW wanted \in Wanted, NEW limit \in Limits, ScanBegins(wanted, limit) PROVE RowsInv'
  <2>1. /\ listing'.pc = "scan" /\ listing'.got = << >> /\ listing'.after = << >> /\ listing'.limit = limit
        /\ UNCHANGED <<moment, tableRow>> /\ limit \in Nat
    BY <1>3, ListedAssumption DEF ScanBegins, NoScan
  <2>2. RowsType'
    <3>1. PICK live \in SUBSET Listed : live = {w \in Listed : tableRow[w].run}
      BY Zenon
    <3>2. listing' = [NoScan EXCEPT !.pc = "scan", !.at = moment, !.wanted = wanted, !.limit = limit, !.live = live]
      BY <1>3, <3>1 DEF ScanBegins
    <3>3. NoScan \in Listings
      BY DEF NoScan, Listings
    <3>4. [NoScan EXCEPT !.pc = "scan", !.at = moment, !.wanted = wanted, !.limit = limit, !.live = live] \in Listings
      BY <2>1, <3>3 DEF RowsInv, RowsType, Listings
    <3> QED BY <2>1, <3>2, <3>4 DEF RowsInv, RowsType
  <2>3. NoneAhead' /\ GotIsPast' /\ GotOnce'
    BY <2>1 DEF RowsInv, NoneAhead, GotIsPast, GotOnce
  <2>4. AllSoFar'
    BY <2>1 DEF AllSoFar, Remaining
  <2> QED BY <2>1, <2>2, <2>3, <2>4 DEF RowsInv, ScanMissesNothingStill
<1> QED BY <1>1, <1>2, <1>3

-----------------------------------------------------------------------------
(* A chunk of the scan.                                                    *)

Rest == {w \in Listed : Remaining(w)}

LEMMA BatchIs ==
  ASSUME RowsType, AllSoFar, listing.pc = "scan"
  PROVE  /\ Batch \subseteq Rest /\ Rest \subseteq Listed /\ BatchSize \in Nat /\ BatchSize # 0
         /\ \A x \in Batch, y \in Rest \ Batch : BoardOrder(x, y)
         /\ Cardinality(Batch) < BatchSize => Batch = Rest
<1>1. BatchSize \in Nat /\ BatchSize # 0
  BY ListedAssumption DEF BatchSize, RowsType, Listings
<1>2. Rest \subseteq Listed /\ IsFiniteSet(Rest) /\ Orders(RowOrder, Rest)
  BY RowOrders DEF Rest
<1>3. \A w \in Rest : {v \in Rest : BoardOrder(v, w)} = Preceding(w, RowOrder, Rest)
  BY <1>2, RowOrders DEF Preceding
<1>4. Batch = {w \in Rest : Cardinality(Preceding(w, RowOrder, Rest)) < BatchSize}
  BY <1>3 DEF Batch, FirstRows, Rest
<1>5. \A x \in Batch, y \in Rest \ Batch : <<x, y>> \in RowOrder
  BY <1>1, <1>2, <1>4, BeginningComesFirst
<1>6. \A x \in Batch, y \in Rest \ Batch : BoardOrder(x, y)
  BY <1>2, <1>4, <1>5, RowOrders
<1>7. Cardinality(Batch) < BatchSize => Batch = Rest
  BY <1>1, <1>2, <1>4, ShortBeginning
<1> QED BY <1>1, <1>2, <1>4, <1>6, <1>7

LEMMA InOrderIs ==
  ASSUME RowsType, NEW some, some \subseteq Listed
  PROVE  /\ Cardinality(some) \in Nat /\ InOrder(some) \in [1 .. Cardinality(some) -> some]
         /\ \A i, j \in 1 .. Cardinality(some) : i < j => BoardOrder(InOrder(some)[i], InOrder(some)[j])
         /\ \A i, j \in 1 .. Cardinality(some) : InOrder(some)[i] = InOrder(some)[j] => i = j
         /\ \A w \in some : \E i \in 1 .. Cardinality(some) : InOrder(some)[i] = w
<1>1. PICK n : n = Cardinality(some)
  OBVIOUS
<1>2. IsFiniteSet(some) /\ Orders(RowOrder, some) /\ \A v, w \in some : <<v, w>> \in RowOrder <=> BoardOrder(v, w)
  BY RowOrders
<1>3. n \in Nat /\ \E s : Lists(s, some, RowOrder)
  BY <1>1, <1>2, OrderedListing
<1>4. \E s \in [1 .. n -> some] : \A i, j \in DOMAIN s : i < j => BoardOrder(s[i], s[j])
  <2>1. PICK s : Lists(s, some, RowOrder)
    BY <1>3
  <2>2. s \in [1 .. n -> some] /\ \A i, j \in 1 .. n : i < j => <<s[i], s[j]>> \in RowOrder
    BY <1>1, <2>1 DEF Lists
  <2>3. \A i \in 1 .. n : s[i] \in some
    BY <2>2
  <2> QED BY <1>2, <2>2, <2>3
<1>5. InOrder(some) \in [1 .. n -> some] /\ \A i, j \in DOMAIN InOrder(some) : i < j => BoardOrder(InOrder(some)[i], InOrder(some)[j])
  BY <1>1, <1>4 DEF InOrder
<1>6. \A i, j \in 1 .. n : i < j => BoardOrder(InOrder(some)[i], InOrder(some)[j])
  BY <1>5
<1>7. Lists(InOrder(some), some, RowOrder)
  <2> SUFFICES ASSUME NEW i \in 1 .. n, NEW j \in 1 .. n, i < j
               PROVE  <<InOrder(some)[i], InOrder(some)[j]>> \in RowOrder
    BY <1>1, <1>5 DEF Lists
  <2>1. InOrder(some)[i] \in some /\ InOrder(some)[j] \in some
    BY <1>5
  <2> QED BY <1>2, <1>6, <2>1
<1> QED BY <1>1, <1>2, <1>3, <1>5, <1>6, <1>7, ListingIsWhole

LEMMA LastIs ==
  ASSUME RowsType, NEW batch, batch \subseteq Listed, batch # {}
  PROVE  LastOf(batch) \in batch /\ \A v \in batch : ~BoardOrder(LastOf(batch), v)
<1>1. PICK n : n = Cardinality(batch)
  OBVIOUS
<1>2. PICK s \in [1 .. n -> batch] :
         /\ n \in Nat /\ \A i, j \in 1 .. n : i < j => BoardOrder(s[i], s[j])
         /\ \A w \in batch : \E i \in 1 .. n : s[i] = w
  BY <1>1, InOrderIs
<1>3. n \in 1 .. n
  BY <1>2
<1>4. ASSUME NEW v \in batch PROVE ~BoardOrder(s[n], v)
  <2>1. PICK i \in 1 .. n : s[i] = v
    BY <1>2
  <2>2. s[n] \in Listed /\ v \in Listed
    BY <1>3
  <2>3. \A x, y \in Listed : ~(BoardOrder(x, y) /\ BoardOrder(y, x)) /\ ~BoardOrder(x, x)
    <3>1. \A w \in Listed : w \in Nat /\ tableRow[w].updated \in Nat
      BY ListedAssumption DEF RowsType, RowShape, As
    <3> QED BY <3>1 DEF BoardOrder
  <2>4. CASE i = n
    BY <2>1, <2>2, <2>3, <2>4
  <2>5. CASE i # n
    BY <1>2, <1>3, <2>1, <2>2, <2>3, <2>5
  <2> QED BY <2>4, <2>5
<1>5. \E w \in batch : \A v \in batch : ~BoardOrder(w, v)
  BY <1>3, <1>4
<1> QED BY <1>5 DEF LastOf

\* new is n answers, for the rows some, in their order.
AnswersFor(some, new, n) ==
  /\ new \in Seq(Answer) /\ Len(new) = n
  /\ \A i \in 1 .. n : new[i][1] \in some
  /\ \A i \in 1 .. n : new[i][2] = StatusNow(new[i][1]) /\ new[i][3] = tableRow[new[i][1]].updated
  /\ \A i, j \in 1 .. n : i < j => BoardOrder(new[i][1], new[j][1])
  /\ \A i, j \in 1 .. n : new[i][1] = new[j][1] => i = j
  /\ \A w \in some : \E i \in 1 .. n : new[i][1] = w

LEMMA AnswersAre ==
  ASSUME RowsType, NEW some, some \subseteq Listed
  PROVE  /\ Cardinality(some) \in Nat
         /\ AnswersFor(some, Answers(InOrder(some)), Cardinality(some))
<1>1. PICK n : n = Cardinality(some)
  OBVIOUS
<1>2. PICK found : found = InOrder(some)
  OBVIOUS
<1>3. /\ n \in Nat /\ found \in [1 .. n -> some]
      /\ \A i, j \in 1 .. n : i < j => BoardOrder(found[i], found[j])
      /\ \A i, j \in 1 .. n : found[i] = found[j] => i = j
      /\ \A w \in some : \E i \in 1 .. n : found[i] = w
  BY <1>1, <1>2, InOrderIs
<1> DEFINE reply(w) == <<w, StatusNow(w), tableRow[w].updated>>
           a == [i \in 1 .. n |-> reply(found[i])]
<1>4. Answers(found) = a
  BY <1>3 DEF Answers
<1>5. \A w \in Listed : reply(w) \in Answer
  <2> SUFFICES ASSUME NEW w \in Listed PROVE StatusNow(w) \in Status /\ tableRow[w].updated \in Nat
    BY DEF Answer
  <2>1. tableRow[w] \in RowShape /\ listing.live \in SUBSET Listed /\ listing.at \in Nat
    BY DEF RowsType, Listings
  <2>2. PICK k \in Kinds, u \in Nat : tableRow[w] = As(k, u)
    BY <2>1 DEF RowShape
  <2>3. tableRow[w].updated = u
    BY <2>2 DEF As
  <2>4. StatusNow(w) \in Status
    <3>1. k.intent \in {"queued", "running", "done"} /\ k.claim \in {"none", "running"}
      <4> DEFINE plain == [intent |-> "queued", artifact |-> FALSE, passed |-> FALSE, claim |-> "none", until |-> 0, run |-> FALSE]
      <4>1. \/ k = plain
            \/ k = [plain EXCEPT !.intent = "running", !.claim = "running", !.until = 2]
            \/ k = [plain EXCEPT !.intent = "done", !.artifact = TRUE, !.run = TRUE]
        BY Zenon DEF Kinds
      <4>2. plain.intent = "queued" /\ plain.claim = "none"
        OBVIOUS
      <4>3. [plain EXCEPT !.intent = "running", !.claim = "running", !.until = 2].intent = "running"
        OBVIOUS
      <4>4. [plain EXCEPT !.intent = "running", !.claim = "running", !.until = 2].claim = "running"
        OBVIOUS
      <4>5. [plain EXCEPT !.intent = "done", !.artifact = TRUE, !.run = TRUE].intent = "done"
        OBVIOUS
      <4>6. [plain EXCEPT !.intent = "done", !.artifact = TRUE, !.run = TRUE].claim = "none"
        OBVIOUS
      <4> HIDE DEF plain
      <4> QED BY <4>1, <4>2, <4>3, <4>4, <4>5, <4>6
    <3>2. tableRow[w].intent \in {"queued", "running", "done"} /\ tableRow[w].claim \in {"none", "running"}
      BY <2>2, <3>1 DEF As
    <3> QED BY <3>2 DEF StatusNow, Status, DeriveStatus
  <2> QED BY <2>3, <2>4
<1>6. \A w : reply(w)[1] = w /\ reply(w)[2] = StatusNow(w) /\ reply(w)[3] = tableRow[w].updated
  OBVIOUS
<1> HIDE DEF reply
<1>7. \A i \in 1 .. n : a[i] = reply(found[i]) /\ found[i] \in some
  BY <1>3
<1>8. a \in [1 .. n -> Answer]
  BY <1>5, <1>7
<1> HIDE DEF a
<1>9. a \in Seq(Answer) /\ Len(a) = n
  BY <1>3, <1>8
<1>10. \A i \in 1 .. n : a[i][1] = found[i] /\ a[i][2] = StatusNow(found[i]) /\ a[i][3] = tableRow[found[i]].updated
  BY <1>6, <1>7
<1>11. AnswersFor(some, a, n)
  BY <1>3, <1>7, <1>9, <1>10 DEF AnswersFor
<1> QED BY <1>1, <1>2, <1>3, <1>4, <1>11

\* One reply after another.
LEMMA AppendedIs ==
  ASSUME NEW T, NEW s \in Seq(T), NEW t \in Seq(T)
  PROVE  /\ s \o t \in Seq(T) /\ Len(s \o t) = Len(s) + Len(t)
         /\ \A i \in 1 .. Len(s) : (s \o t)[i] = s[i]
         /\ \A i \in 1 .. Len(t) : (s \o t)[Len(s) + i] = t[i]
OBVIOUS

LEMMA ChunkKeepsRows ==
  ASSUME RowsInv, ScanChunk
  PROVE  RowsInv'
<1>1. PICK batch, some, n, new, g, got, limit, hits :
        /\ batch = Batch /\ some = Hits(batch) /\ n = Cardinality(some) /\ new = Answers(InOrder(some))
        /\ got = listing.got /\ g = Len(got) /\ limit = listing.limit /\ hits = got \o new
  OBVIOUS
<1>2. PICK full \in BOOLEAN : full <=> limit # 0 /\ Len(hits) >= limit
  OBVIOUS
<1>3. /\ RowsType /\ NoneAhead /\ GotIsPast /\ GotOnce /\ AllSoFar /\ listing.pc = "scan"
      /\ UNCHANGED <<moment, tableRow>>
  BY DEF RowsInv, ScanChunk
<1>4. listing' = [listing EXCEPT
        !.got = IF full THEN SubSeq(hits, 1, limit) ELSE hits,
        !.pc = IF full \/ Cardinality(batch) < BatchSize THEN "done" ELSE "scan",
        !.after = IF batch = {} THEN listing.after ELSE <<tableRow[LastOf(batch)].updated, LastOf(batch)>>]
  BY <1>1, <1>2 DEF ScanChunk
<1>5. some \subseteq batch /\ batch \subseteq Listed /\ n \in Nat /\ AnswersFor(some, new, n)
  <2>1. some \subseteq batch /\ batch \subseteq Listed
    BY <1>1, <1>3, BatchIs DEF Hits
  <2> QED BY <1>1, <1>3, <2>1, AnswersAre
<1>6. got \in Seq(Answer) /\ g \in Nat /\ limit \in Nat /\ (limit # 0 => g < limit)
  BY <1>1, <1>3 DEF RowsType, Listings, AllSoFar
<1>7. /\ hits \in Seq(Answer) /\ Len(hits) = g + n
      /\ \A i \in 1 .. g : hits[i] = got[i]
      /\ \A i \in 1 .. n : hits[g + i] = new[i]
  <2>1. new \in Seq(Answer) /\ Len(new) = n
    BY <1>5 DEF AnswersFor
  <2> QED BY <1>1, <1>6, <2>1, AppendedIs
\* The first m of the hits are the answer.
<1>8. PICK m \in Nat : m = IF full THEN limit ELSE g + n
  BY <1>5, <1>6
<1>9. m >= g /\ m <= g + n
  BY <1>2, <1>5, <1>6, <1>7, <1>8
<1>10. PICK next : next = IF full THEN SubSeq(hits, 1, limit) ELSE hits
  OBVIOUS
<1>11. next \in Seq(Answer) /\ Len(next) = m /\ \A i \in 1 .. m : next[i] = hits[i]
  <2>1. CASE full
    <3>1. next = SubSeq(hits, 1, m) /\ m <= Len(hits) /\ m \in Nat
      BY <1>7, <1>8, <1>9, <1>10, <2>1
    <3>2. hits \in Seq(Answer)
      BY <1>7
    <3> QED BY ONLY <3>1, <3>2
  <2>2. CASE ~full
    BY <1>7, <1>8, <1>10, <2>2
  <2> QED BY <2>1, <2>2
<1>12. PICK after \in {<< >>} \cup (Nat \X Nat) :
         after = IF batch = {} THEN listing.after ELSE <<tableRow[LastOf(batch)].updated, LastOf(batch)>>
  <2>1. \A w \in Listed : w \in Nat /\ tableRow[w].updated \in Nat
    BY <1>3, ListedAssumption DEF RowsType, RowShape, As
  <2>2. batch # {} => LastOf(batch) \in Listed
    BY <1>3, <1>5, LastIs
  <2> QED BY <1>3, <2>1, <2>2 DEF RowsType, Listings
<1>13. /\ listing' \in Listings /\ listing'.got = next /\ listing'.after = after /\ listing'.limit = limit
       /\ listing'.pc = (IF full \/ Cardinality(batch) < BatchSize THEN "done" ELSE "scan")
       /\ listing'.at = listing.at /\ listing'.live = listing.live /\ listing'.wanted = listing.wanted
       /\ listing'.touched = listing.touched
  <2>1. listing \in Listings
    BY <1>3 DEF RowsType
  <2>2. listing' = [listing EXCEPT !.got = next, !.after = after,
                       !.pc = IF full \/ Cardinality(batch) < BatchSize THEN "done" ELSE "scan"]
    BY <1>4, <1>10, <1>12, <2>1 DEF Listings
  <2>3. PICK pc \in {"scan", "done"} : pc = IF full \/ Cardinality(batch) < BatchSize THEN "done" ELSE "scan"
    OBVIOUS
  <2>4. listing' = [listing EXCEPT !.got = next, !.after = after, !.pc = pc]
    BY <2>2, <2>3
  <2>5. next \in Seq(Answer)
    BY <1>11
  <2>6. listing' \in Listings
    BY <2>1, <2>4, <2>5 DEF Listings
  <2>7. /\ listing'.got = next /\ listing'.after = after /\ listing'.pc = pc /\ listing'.limit = listing.limit
        /\ listing'.at = listing.at /\ listing'.live = listing.live /\ listing'.wanted = listing.wanted
        /\ listing'.touched = listing.touched
    BY <2>1, <2>4 DEF Listings
  <2> QED BY <1>1, <2>3, <2>6, <2>7
<1>14. \A w \in Listed : w \in Nat /\ tableRow[w].updated \in Nat
  BY <1>3, ListedAssumption DEF RowsType, RowShape, As
<1>15. RowsType' /\ NoneAhead'
  BY <1>3, <1>13 DEF RowsType, NoneAhead
<1>16. /\ \A i \in 1 .. g : got[i] \in Answer /\ got[i][1] \in Listed /\ got[i][3] \in Nat
       /\ \A i \in 1 .. g : got[i][3] <= tableRow[got[i][1]].updated /\ Past(got[i][3], got[i][1], listing.after)
  BY <1>1, <1>3, <1>6 DEF Answer, GotIsPast
<1>17. \A i \in 1 .. g : ~Remaining(got[i][1])
  <2> SUFFICES ASSUME NEW i \in 1 .. g PROVE ~Remaining(got[i][1])
    OBVIOUS
  <2>1. listing.after \in {<< >>} \cup (Nat \X Nat)
    BY <1>3 DEF RowsType, Listings
  <2>2. Past(tableRow[got[i][1]].updated, got[i][1], listing.after)
    BY <1>14, <1>16, <2>1, PastStaysPast
  <2> QED BY <2>2 DEF Past, Remaining
<1>18. /\ \A i \in 1 .. n : new[i][1] \in some /\ new[i][1] \in Listed /\ Remaining(new[i][1])
       /\ \A i \in 1 .. n : new[i][2] = StatusNow(new[i][1]) /\ new[i][3] = tableRow[new[i][1]].updated
  <2>1. \A w \in batch : Remaining(w)
    BY <1>1, <1>3, BatchIs DEF Rest
  <2> QED BY <1>5, <2>1 DEF AnswersFor
\* An answer is one of before or a new one.
<1>19. ASSUME NEW i \in 1 .. m PROVE (i \in 1 .. g /\ next[i] = got[i]) \/ \E j \in 1 .. n : i = g + j /\ next[i] = new[j]
  <2>1. CASE i <= g
    BY <1>6, <1>7, <1>11, <2>1
  <2>2. CASE i > g
    <3>1. i - g \in 1 .. n /\ i = g + (i - g)
      BY <1>5, <1>6, <1>8, <1>9, <2>2
    <3> QED BY <1>7, <1>11, <3>1
  <2> QED BY <1>6, <2>1, <2>2
<1>20. ASSUME NEW w \in batch PROVE Past(tableRow[w].updated, w, after)
  <2>1. batch # {} /\ after = <<tableRow[LastOf(batch)].updated, LastOf(batch)>>
    BY <1>12
  <2>2. LastOf(batch) \in Listed /\ ~BoardOrder(LastOf(batch), w)
    BY <1>3, <1>5, <2>1, LastIs
  <2> QED BY <1>5, <1>14, <2>1, <2>2 DEF Past, BoardOrder
<1>21. ASSUME NEW u \in Nat, NEW w \in Nat, Past(u, w, listing.after) PROVE Past(u, w, after)
  <2>1. CASE batch = {}
    BY <1>12, <1>21, <2>1
  <2>2. CASE batch # {}
    <3>1. /\ LastOf(batch) \in Listed /\ Remaining(LastOf(batch))
          /\ after = <<tableRow[LastOf(batch)].updated, LastOf(batch)>>
      BY <1>1, <1>3, <1>5, <1>12, <2>2, LastIs, BatchIs DEF Rest
    <3>2. listing.after \in Nat \X Nat /\ ~(u < listing.after[1]) /\ ~(u = listing.after[1] /\ w > listing.after[2])
      BY <1>3, <1>21 DEF RowsType, Listings, Past
    <3>3. listing.after # << >>
      BY <1>21 DEF Past
    <3> QED BY <1>14, <3>1, <3>2, <3>3 DEF Past, Remaining
  <2> QED BY <2>1, <2>2
<1>22. GotIsPast'
  <2> SUFFICES ASSUME NEW i \in 1 .. m
               PROVE  next[i][3] <= tableRow[next[i][1]].updated /\ Past(next[i][3], next[i][1], after)
    BY <1>3, <1>8, <1>11, <1>13 DEF GotIsPast
  <2>1. CASE i \in 1 .. g /\ next[i] = got[i]
    BY <1>14, <1>16, <1>21, <2>1
  <2>2. ASSUME NEW j \in 1 .. n, next[i] = new[j]
        PROVE  next[i][3] <= tableRow[next[i][1]].updated /\ Past(next[i][3], next[i][1], after)
    <3>1. new[j][1] \in batch /\ tableRow[new[j][1]].updated \in Nat
      BY <1>5, <1>14, <1>18
    <3> QED BY <1>18, <1>20, <2>2, <3>1
  <2> QED BY <1>19, <2>1, <2>2
<1>23. GotOnce'
  <2> SUFFICES ASSUME NEW i \in 1 .. m, NEW j \in 1 .. m, next[i][1] = next[j][1] PROVE i = j
    BY <1>8, <1>11, <1>13 DEF GotOnce
  <2>1. CASE i \in 1 .. g /\ next[i] = got[i] /\ j \in 1 .. g /\ next[j] = got[j]
    BY <1>1, <1>3, <1>6, <2>1 DEF GotOnce
  <2>2. ASSUME NEW k \in 1 .. n, i = g + k, next[i] = new[k], NEW l \in 1 .. n, j = g + l, next[j] = new[l]
        PROVE  i = j
    BY <1>5, <2>2 DEF AnswersFor
  <2>3. ASSUME NEW k \in 1 .. g, NEW l \in 1 .. n PROVE got[k][1] # new[l][1]
    BY <1>17, <1>18
  <2> QED BY <1>19, <2>1, <2>2, <2>3
<1>24. \A w : StatusNow(w)' = StatusNow(w) /\ Unwanted(w)' = Unwanted(w)
  BY <1>3, <1>13 DEF StatusNow, Unwanted
<1> DEFINE Kept(w) == \E i \in 1 .. m : next[i][1] = w /\ next[i][2] = StatusNow(w)
           TakenTo(w) == full /\ (next[m][3] > tableRow[w].updated \/ (next[m][3] = tableRow[w].updated /\ next[m][1] < w))
\* A full answer ends with a new one, and what comes after that is cut.
<1>25. ASSUME full PROVE m - g \in 1 .. n /\ next[m] = new[m - g]
  <2>1. m = limit /\ g < m
    BY <1>2, <1>6, <1>8, <1>25
  <2>2. m \in 1 .. m /\ ~(m \in 1 .. g)
    BY <1>6, <2>1
  <2>3. PICK j \in 1 .. n : m = g + j /\ next[m] = new[j]
    BY <1>19, <2>2
  <2> QED BY <1>6, <2>3
<1>26. ASSUME full, NEW w, BoardOrder(new[m - g][1], w) PROVE TakenTo(w)
  <2>1. m - g \in 1 .. n /\ next[m] = new[m - g]
    BY <1>25, <1>26
  <2>2. next[m][3] = tableRow[next[m][1]].updated
    BY <1>18, <2>1
  <2>3. next[m][3] > tableRow[w].updated \/ (next[m][3] = tableRow[w].updated /\ next[m][1] < w)
    BY <1>26, <2>1, <2>2 DEF BoardOrder
  <2> QED BY <1>26, <2>3
<1>27. ASSUME NEW w \in Listed \ listing.touched, ~Remaining(w) PROVE Unwanted(w) \/ Kept(w)
  <2>1. CASE Answered(w)
    <3>1. PICK i \in 1 .. g : got[i][1] = w /\ got[i][2] = StatusNow(w)
      BY <1>1, <1>6, <2>1 DEF Answered
    <3>2. i \in 1 .. m /\ next[i] = got[i]
      BY <1>6, <1>7, <1>8, <1>9, <1>11
    <3> QED BY <3>1, <3>2
  <2> QED BY <1>3, <1>27, <2>1 DEF AllSoFar
<1>28. ASSUME NEW w \in batch PROVE Unwanted(w) \/ Kept(w) \/ TakenTo(w)
  <2>1. CASE w \notin some
    BY <1>1, <2>1 DEF Hits, Unwanted
  <2>2. CASE w \in some
    <3>1. PICK j \in 1 .. n : new[j][1] = w
      BY <1>5, <2>2 DEF AnswersFor
    <3>2. CASE g + j <= m
      <4>1. g + j \in 1 .. m /\ next[g + j] = new[j]
        BY <1>6, <1>7, <1>8, <1>11, <3>2
      <4> QED BY <1>18, <3>1, <4>1
    <3>3. CASE ~(g + j <= m)
      <4>1. full
        BY <1>5, <1>6, <1>8, <3>3
      <4>2. m - g \in 1 .. n /\ m - g < j
        BY <1>6, <1>8, <1>25, <3>3, <4>1
      <4>3. BoardOrder(new[m - g][1], w)
        BY <1>5, <3>1, <4>2 DEF AnswersFor
      <4> QED BY <1>26, <4>1, <4>3
    <3> QED BY <3>2, <3>3
  <2> QED BY <2>1, <2>2
<1>29. ASSUME NEW w \in Listed, Remaining(w), w \notin batch
       PROVE  TakenTo(w) \/ (~full /\ ~(Cardinality(batch) < BatchSize) /\ ~Past(tableRow[w].updated, w, after))
  <2>1. w \in Rest /\ batch = Batch
    BY <1>1, <1>29 DEF Rest
  <2>2. ~(Cardinality(batch) < BatchSize) /\ BatchSize \in Nat /\ BatchSize # 0
    BY <1>3, <1>29, <2>1, BatchIs
  <2>3. \A x \in batch : BoardOrder(x, w)
    BY <1>3, <1>29, <2>1, BatchIs
  <2>4. CASE full
    <3>1. m - g \in 1 .. n
      BY <1>25, <2>4
    <3>2. new[m - g][1] \in batch
      BY <1>5, <1>18, <3>1
    <3> QED BY <1>26, <2>3, <2>4, <3>2
  <2>5. CASE ~full
    <3>1. batch # {}
      <4> SUFFICES ASSUME batch = {} PROVE FALSE
        OBVIOUS
      <4>1. Cardinality(batch) = 0
        BY FS_EmptySet
      <4>2. 0 < BatchSize
        BY <2>2
      <4> QED BY <2>2, <4>1, <4>2
    <3>2. LastOf(batch) \in batch /\ after = <<tableRow[LastOf(batch)].updated, LastOf(batch)>>
      BY <1>3, <1>5, <1>12, <3>1, LastIs
    <3>3. ~Past(tableRow[w].updated, w, after)
      BY <1>5, <1>14, <2>3, <3>2 DEF Past, BoardOrder
    <3> QED BY <2>2, <2>5, <3>3
  <2> QED BY <2>4, <2>5
<1>30. \A w : Remaining(w)' <=> ~Past(tableRow[w].updated, w, after)
  BY <1>3, <1>13 DEF Remaining, Past
<1>31. \A w : Kept(w) => Answered(w)'
  BY <1>8, <1>11, <1>13, <1>24 DEF Answered
<1>32. AllSoFar'
  <2> SUFFICES ASSUME listing'.pc = "scan"
               PROVE  /\ limit # 0 => Len(next) < limit
                      /\ \A w \in Listed \ listing.touched : ~Remaining(w)' => Unwanted(w)' \/ Answered(w)'
    BY <1>13 DEF AllSoFar
  <2>1. ~full
    BY <1>13
  <2>2. limit # 0 => Len(next) < limit
    BY <1>2, <1>5, <1>6, <1>7, <1>8, <1>11, <2>1
  <2>3. ASSUME NEW w \in Listed \ listing.touched, ~Remaining(w)' PROVE Unwanted(w)' \/ Answered(w)'
    <3>1. Past(tableRow[w].updated, w, after)
      BY <1>30, <2>3
    <3>2. Unwanted(w) \/ Kept(w)
      BY <1>27, <1>28, <1>29, <2>1, <3>1
    <3> QED BY <1>24, <1>31, <3>2
  <2> QED BY <2>2, <2>3
<1>33. ScanMissesNothingStill'
  <2> SUFFICES ASSUME listing'.pc = "done", NEW w \in Listed \ listing.touched
               PROVE  \/ listing.wanted # {} /\ StatusNow(w) \notin listing.wanted
                      \/ \E i \in DOMAIN next : next[i][1] = w /\ next[i][2] = StatusNow(w)
                      \/ /\ limit # 0 /\ Len(next) = limit
                         /\ LET l == Last(next) IN
                            l[3] > tableRow[w].updated \/ (l[3] = tableRow[w].updated /\ l[1] < w)
    BY <1>3, <1>13, <1>23, <1>24 DEF ScanMissesNothingStill, GotOnce
  <2>1. full \/ Cardinality(batch) < BatchSize
    BY <1>13
  <2>2. Unwanted(w) \/ Kept(w) \/ TakenTo(w)
    BY <1>27, <1>28, <1>29, <2>1
  <2>3. CASE Unwanted(w)
    BY <2>3 DEF Unwanted
  <2>4. CASE Kept(w)
    BY <1>8, <1>11, <2>4
  <2>5. CASE TakenTo(w)
    BY <1>2, <1>8, <1>11, <2>5 DEF Last
  <2> QED BY <2>2, <2>3, <2>4, <2>5
<1> QED BY <1>15, <1>22, <1>23, <1>32, <1>33 DEF RowsInv

LEMMA RowsInvKept == RowsInv /\ [RowsNext]_rowVars => RowsInv'
<1> SUFFICES ASSUME RowsInv, [RowsNext]_rowVars PROVE RowsInv'
  OBVIOUS
<1>1. CASE UNCHANGED rowVars
  <2>1. UNCHANGED <<moment, tableRow, listing>>
    BY <1>1 DEF rowVars
  <2>2. \A w : StatusNow(w)' = StatusNow(w) /\ Remaining(w)' = Remaining(w)
    BY <2>1 DEF StatusNow, Remaining
  <2>3. \A w : Unwanted(w)' = Unwanted(w) /\ Answered(w)' = Answered(w)
    BY <2>1, <2>2 DEF Unwanted, Answered
  <2>4. RowsType' /\ NoneAhead' /\ GotIsPast' /\ GotOnce'
    BY <2>1 DEF RowsInv, RowsType, NoneAhead, GotIsPast, GotOnce
  <2>5. AllSoFar'
    BY <2>1, <2>2, <2>3 DEF RowsInv, AllSoFar
  <2>6. ScanMissesNothingStill'
    BY <2>1, <2>2 DEF RowsInv, ScanMissesNothingStill
  <2> QED BY <2>4, <2>5, <2>6 DEF RowsInv
<1> QED BY <1>1, WriteKeepsRows, OthersKeepRows, ChunkKeepsRows DEF RowsNext

-----------------------------------------------------------------------------
(* Both.                                                                   *)

ReadersInv ==
  /\ BoardInv
  /\ part = "rows" => RowsInv
  /\ part # "rows" => listing.pc = "idle"

\* Whatever the tables hold and whoever writes: the documents of a bundle show
\* the database after one transaction, though stable_copy reads the two files
\* without a lock, and a listing in chunks answers no row twice and leaves out
\* none that stood still (stable_copy, build_documents, board_rows).
THEOREM BoardReadsAgreeHolds == Spec => []BoardReadsAgree
<1>1. Init => ReadersInv
  BY BoardInvInit, RowsInvInit DEF Init, ReadersInv, NoScan
<1>2. ReadersInv /\ [Next]_allBoardVars => ReadersInv'
  <2> SUFFICES ASSUME ReadersInv, [Next]_allBoardVars PROVE ReadersInv'
    OBVIOUS
  <2>1. part' = part
    BY DEF Next, allBoardVars
  <2>2. [BoardNext \/ ScrapeNext]_boardVars
    BY DEF Next, allBoardVars
  <2>3. part = "rows" => [RowsNext]_rowVars
    BY DEF Next, allBoardVars
  <2>4. part # "rows" => listing' = listing
    BY DEF Next, allBoardVars, rowVars
  <2> QED BY <2>1, <2>2, <2>3, <2>4, BoardInvKept, RowsInvKept DEF ReadersInv
<1>3. ReadersInv => BoardReadsAgree
  BY BoardInvAgrees DEF ReadersInv, RowsInv, BoardReadsAgree, ScanMissesNothingStill
<1> QED BY <1>1, <1>2, <1>3, PTL DEF Spec

-----------------------------------------------------------------------------
(* The pages of a ranked query.                                            *)

\* Spans, cards and their ranks as operators of a board q.
RowNow == [plane : Int, stream : Int, pin : Pins \cup {"plain"}, claim : {"none", "running", "blocked"}, leased : BOOLEAN,
           pid : BOOLEAN, intent : {"planned", "blocked"}, priority : Nat, updated : Nat]
Boarded == [QRow -> RowNow]
Unplaced(r) == r.plane \in {NoHeadYet, Undecided} \/ r.stream = NoHeadYet \/ r.pin = "none"
SpanIn(q, w) ==
  [work |-> w, status |-> StatusOf(q[w]), priority |-> q[w].priority, updated |-> q[w].updated,
   plane |-> IF q[w].plane \notin {NoHeadYet, Undecided} THEN q[w].plane ELSE Undecided,
   planeExact |-> q[w].plane \notin {NoHeadYet, Undecided},
   stream |-> IF Unplaced(q[w]) THEN Unclassified(w) ELSE q[w].stream, lineageExact |-> ~Unplaced(q[w]),
   quarantined |-> Unplaced(q[w]), pinned |-> ~Unplaced(q[w]) /\ q[w].pin = "pinned",
   valued |-> ~Unplaced(q[w]) /\ q[w].pin = "valued"]
SpansIn(q) == {SpanIn(q, w) : w \in QRow}
SettledIn(q, w) ==
  IF SpanIn(q, w).lineageExact /\ Mixed(SpansIn(q), SpanIn(q, w).stream)
  THEN [SpanIn(q, w) EXCEPT !.plane = Undecided, !.planeExact = FALSE, !.quarantined = TRUE]
  ELSE SpanIn(q, w)
AllSettled(q) == {SettledIn(q, w) : w \in QRow}
ServedIn(q, f) == {x \in AllSettled(q) : Matches(x, f)}
CardsIn(q, f) == WorkCards(ServedIn(q, f))

LEMMA NormalizedIs ==
  /\ Normalized = AllSettled(qrow)
  /\ \A f : WorkCards(EligibleSpans(f)) = CardsIn(qrow, f)
<1>1. \A w : NormalizedSpan(w) = SpanIn(qrow, w)
  BY DEF NormalizedSpan, SpanIn, Quarantined, Unplaced, SnapshotStatus
<1>2. {NormalizedSpan(w) : w \in QRow} = SpansIn(qrow)
  BY <1>1 DEF SpansIn
<1>3. CrossSpanQuarantine(SpansIn(qrow)) = AllSettled(qrow)
  <2>1. CrossSpanQuarantine(SpansIn(qrow)) =
          {IF x.lineageExact /\ Mixed(SpansIn(qrow), x.stream)
           THEN [x EXCEPT !.plane = Undecided, !.planeExact = FALSE, !.quarantined = TRUE] ELSE x : x \in SpansIn(qrow)}
    BY DEF CrossSpanQuarantine
  <2>2. SpansIn(qrow) = {SpanIn(qrow, w) : w \in QRow}
    BY DEF SpansIn
  <2> QED BY <2>1, <2>2 DEF AllSettled, SettledIn
<1>4. Normalized = AllSettled(qrow)
  BY <1>2, <1>3 DEF Normalized
<1> QED BY <1>4 DEF EligibleSpans, ServedIn, CardsIn

\* A rank: nine numbers, compared from the left.
Ranks == [1 .. 9 -> Int]

LEMMA RanksOrdered ==
  ASSUME NEW a \in Ranks, NEW b \in Ranks
  PROVE  /\ ~Precedes(a, a)
         /\ a # b => Precedes(a, b) \/ Precedes(b, a)
         /\ \A c \in Ranks : Precedes(a, b) /\ Precedes(b, c) => Precedes(a, c)
<1>1. ~Precedes(a, a)
  BY DEF Precedes, Ranks
<1>2. ASSUME a # b PROVE Precedes(a, b) \/ Precedes(b, a)
  <2> DEFINE D == {i \in 1 .. 9 : a[i] # b[i]}
  <2>1. D \subseteq Nat /\ D # {}
    BY <1>2 DEF Ranks
  <2>2. PICK i \in D : \A j \in D : i <= j
    BY <2>1, LeastNat
  <2>3. i \in 1 .. 9 /\ a[i] \in Int /\ b[i] \in Int /\ a[i] # b[i]
    BY <2>2 DEF Ranks
  <2>4. \A j \in 1 .. i - 1 : a[j] = b[j]
    BY <2>2, <2>3
  <2>5. DOMAIN a = 1 .. 9 /\ DOMAIN b = 1 .. 9
    BY DEF Ranks
  <2>6. CASE a[i] < b[i]
    BY <2>3, <2>4, <2>5, <2>6 DEF Precedes
  <2>7. CASE b[i] < a[i]
    BY <2>3, <2>4, <2>5, <2>7 DEF Precedes
  <2> QED BY <2>3, <2>6, <2>7
<1>3. ASSUME NEW c \in Ranks, Precedes(a, b), Precedes(b, c) PROVE Precedes(a, c)
  <2>1. DOMAIN a = 1 .. 9 /\ DOMAIN b = 1 .. 9 /\ \A i \in 1 .. 9 : a[i] \in Int /\ b[i] \in Int /\ c[i] \in Int
    BY DEF Ranks
  <2>2. PICK i \in 1 .. 9 : a[i] < b[i] /\ \A j \in 1 .. i - 1 : a[j] = b[j]
    BY <1>3, <2>1 DEF Precedes
  <2>3. PICK k \in 1 .. 9 : b[k] < c[k] /\ \A j \in 1 .. k - 1 : b[j] = c[j]
    BY <1>3, <2>1 DEF Precedes
  <2>4. CASE i <= k
    <3>1. \A j \in 1 .. i - 1 : j \in 1 .. k - 1 /\ a[j] = c[j]
      BY <2>2, <2>3, <2>4
    <3>2. a[i] < c[i]
      <4>1. i = k \/ i \in 1 .. k - 1
        BY <2>4
      <4> QED BY <2>1, <2>2, <2>3, <4>1
    <3> QED BY <2>1, <3>1, <3>2 DEF Precedes
  <2>5. CASE k < i
    <3>1. \A j \in 1 .. k - 1 : j \in 1 .. i - 1 /\ a[j] = c[j]
      BY <2>2, <2>3, <2>5
    <3>2. k \in 1 .. i - 1 /\ a[k] < c[k]
      BY <2>1, <2>2, <2>3, <2>5
    <3> QED BY <2>1, <3>1, <3>2 DEF Precedes
  <2> QED BY <2>4, <2>5
<1> QED BY <1>1, <1>2, <1>3

\* What a card is made of.
Members(q, f, k) == {w \in QRow : Matches(SettledIn(q, w), f) /\ Key(SettledIn(q, w)) = k}
Held(q, f) == {w \in QRow : Matches(SettledIn(q, w), f)}

Priorities(q, f, k) == {SettledIn(q, w).priority : w \in Members(q, f, k)}
Updates(q, f, k) == {SettledIn(q, w).updated : w \in Members(q, f, k)}

LEMMA SettledTyped ==
  ASSUME NEW q \in Boarded, NEW w \in QRow
  PROVE  /\ SettledIn(q, w).work = w /\ SettledIn(q, w).status = StatusOf(q[w])
         /\ SettledIn(q, w).priority = q[w].priority /\ SettledIn(q, w).updated = q[w].updated
         /\ SettledIn(q, w).priority \in Int /\ SettledIn(q, w).updated \in Int
         /\ SettledIn(q, w).plane \in Int /\ SettledIn(q, w).stream \in Int
         /\ Key(SettledIn(q, w)) = <<SettledIn(q, w).plane, SettledIn(q, w).stream>>
<1>1. q[w].plane \in Int /\ q[w].stream \in Int /\ q[w].priority \in Nat /\ q[w].updated \in Nat /\ w \in Int
  BY QueriesAssumption DEF Boarded, RowNow
<1>2. /\ SpanIn(q, w).work = w /\ SpanIn(q, w).status = StatusOf(q[w])
      /\ SpanIn(q, w).priority = q[w].priority /\ SpanIn(q, w).updated = q[w].updated
      /\ SpanIn(q, w).plane \in Int /\ SpanIn(q, w).stream \in Int
  BY <1>1 DEF SpanIn, Undecided, Unclassified
<1>3. \A x \in {SpanIn(q, w)} :
        LET y == [x EXCEPT !.plane = Undecided, !.planeExact = FALSE, !.quarantined = TRUE] IN
          /\ y.work = x.work /\ y.status = x.status /\ y.priority = x.priority /\ y.updated = x.updated
          /\ y.plane = Undecided /\ y.stream = x.stream
  BY DEF SpanIn
<1>4. Undecided \in Int
  BY DEF Undecided
<1> QED BY <1>1, <1>2, <1>3, <1>4 DEF SettledIn, Key

LEMMA CardsAre ==
  ASSUME NEW q, NEW f
  PROVE  /\ CardsIn(q, f) = {CardOf(Key(SettledIn(q, w)), ServedIn(q, f)) : w \in Held(q, f)}
         /\ IsFiniteSet(CardsIn(q, f))
<1>1. ServedIn(q, f) = {SettledIn(q, w) : w \in Held(q, f)}
  BY DEF ServedIn, AllSettled, Held
<1>2. CardsIn(q, f) = {CardOf(Key(SettledIn(q, w)), ServedIn(q, f)) : w \in Held(q, f)}
  <2> DEFINE keys == {Key(x) : x \in ServedIn(q, f)}
             card(k) == CardOf(k, ServedIn(q, f))
  <2>1. CardsIn(q, f) = {card(k) : k \in keys}
    BY Zenon DEF CardsIn, WorkCards
  <2>2. keys = {Key(SettledIn(q, w)) : w \in Held(q, f)}
    BY <1>1
  <2> HIDE DEF keys, card
  <2>3. CardsIn(q, f) = {card(Key(SettledIn(q, w))) : w \in Held(q, f)}
    BY <2>1, <2>2
  <2> QED BY <2>3 DEF card
<1>3. IsFiniteSet(Held(q, f))
  BY QueriesAssumption, FS_Subset DEF Held
<1> DEFINE card == [w \in Held(q, f) |-> CardOf(Key(SettledIn(q, w)), ServedIn(q, f))]
<1>4. card \in Surjection(Held(q, f), CardsIn(q, f))
  BY <1>2 DEF Surjection
<1> HIDE DEF card
<1> QED BY <1>2, <1>3, <1>4, FS_Surjection

LEMMA CardNumbers ==
  ASSUME NEW q, NEW f, NEW k
  PROVE  /\ CardOf(k, ServedIn(q, f)).key = k
         /\ CardOf(k, ServedIn(q, f)).priority = Lowest(Priorities(q, f, k))
         /\ CardOf(k, ServedIn(q, f)).newest = Highest(Updates(q, f, k))
<1> DEFINE own == {x \in ServedIn(q, f) : Key(x) = k}
<1>1. own = {SettledIn(q, w) : w \in Members(q, f, k)}
  BY DEF ServedIn, AllSettled, Members
<1>2. CardOf(k, ServedIn(q, f)) =
        [key |-> k, pinned |-> \E x \in own : x.pinned, active |-> \E x \in own : x.status = "running",
         blocked |-> \E x \in own : x.status = "blocked", valued |-> \E x \in own : x.valued,
         priority |-> Lowest({x.priority : x \in own}), newest |-> Highest({x.updated : x \in own})]
  BY DEF CardOf
<1> HIDE DEF own
<1>3. {x.priority : x \in own} = Priorities(q, f, k) /\ {x.updated : x \in own} = Updates(q, f, k)
  BY <1>1 DEF Priorities, Updates
<1> DEFINE c == CardOf(k, ServedIn(q, f))
<1>4. c.key = k /\ c.priority = Lowest({x.priority : x \in own}) /\ c.newest = Highest({x.updated : x \in own})
  BY <1>2
<1> HIDE DEF c
<1>5. c.priority = Lowest(Priorities(q, f, k)) /\ c.newest = Highest(Updates(q, f, k))
  BY <1>3, <1>4
<1> QED BY <1>4, <1>5 DEF c

LEMMA CardSigns ==
  ASSUME NEW q, NEW f, NEW k
  PROVE  /\ CardOf(k, ServedIn(q, f)).pinned <=> \E w \in Members(q, f, k) : SettledIn(q, w).pinned
         /\ CardOf(k, ServedIn(q, f)).active <=> \E w \in Members(q, f, k) : SettledIn(q, w).status = "running"
         /\ CardOf(k, ServedIn(q, f)).blocked <=> \E w \in Members(q, f, k) : SettledIn(q, w).status = "blocked"
         /\ CardOf(k, ServedIn(q, f)).valued <=> \E w \in Members(q, f, k) : SettledIn(q, w).valued
<1> DEFINE own == {x \in ServedIn(q, f) : Key(x) = k}
<1>1. own = {SettledIn(q, w) : w \in Members(q, f, k)}
  BY DEF ServedIn, AllSettled, Members
<1>2. CardOf(k, ServedIn(q, f)) =
        [key |-> k, pinned |-> \E x \in own : x.pinned, active |-> \E x \in own : x.status = "running",
         blocked |-> \E x \in own : x.status = "blocked", valued |-> \E x \in own : x.valued,
         priority |-> Lowest({x.priority : x \in own}), newest |-> Highest({x.updated : x \in own})]
  BY DEF CardOf
<1> HIDE DEF own
<1>3. /\ (\E x \in own : x.status = "running") <=> (\E w \in Members(q, f, k) : SettledIn(q, w).status = "running")
      /\ (\E x \in own : x.status = "blocked") <=> (\E w \in Members(q, f, k) : SettledIn(q, w).status = "blocked")
      /\ (\E x \in own : x.pinned) <=> (\E w \in Members(q, f, k) : SettledIn(q, w).pinned)
      /\ (\E x \in own : x.valued) <=> (\E w \in Members(q, f, k) : SettledIn(q, w).valued)
  BY <1>1
<1> DEFINE c == CardOf(k, ServedIn(q, f))
<1>4. /\ c.pinned <=> \E x \in own : x.pinned
      /\ c.valued <=> \E x \in own : x.valued
      /\ c.active <=> \E x \in own : x.status = "running"
      /\ c.blocked <=> \E x \in own : x.status = "blocked"
  BY <1>2
<1> HIDE DEF c
<1> QED BY <1>3, <1>4 DEF c

LEMMA LowestHighest ==
  ASSUME NEW S, S \subseteq Nat, S # {}, IsFiniteSet(S)
  PROVE  Lowest(S) \in S /\ Highest(S) \in S
<1>1. Lowest(S) \in S
  <2>1. \E n \in S : \A m \in S : n <= m
    BY LeastNat
  <2> QED BY <2>1 DEF Lowest
<1>2. \E n \in S : \A m \in S : m <= n
  <2> DEFINE R == {p \in S \X S : p[1] < p[2]}
  <2>1. Orders(R, S)
    BY DEF Orders
  <2> HIDE DEF R
  <2>2. PICK n, s : n \in Nat /\ n = Cardinality(S) /\ Lists(s, S, R)
    BY <2>1, OrderedListing
  <2>3. s \in [1 .. n -> S] /\ \A i, j \in 1 .. n : i < j => <<s[i], s[j]>> \in R
    BY <2>2 DEF Lists
  <2>4. \A x \in S : \E i \in 1 .. n : s[i] = x
    BY <2>1, <2>2, ListingIsWhole
  <2>5. n \in 1 .. n
    <3>1. PICK x \in S : TRUE
      OBVIOUS
    <3>2. PICK i \in 1 .. n : s[i] = x
      BY <2>4
    <3> QED BY <2>2, <3>2
  <2>6. ASSUME NEW m \in S PROVE m <= s[n]
    <3>1. PICK i \in 1 .. n : s[i] = m
      BY <2>4
    <3>2. s[n] \in Nat /\ m \in Nat
      BY <2>3, <2>5
    <3>3. CASE i = n
      BY <3>1, <3>2, <3>3
    <3>4. CASE i < n
      <4>1. <<m, s[n]>> \in R
        BY <2>3, <2>5, <3>1, <3>4
      <4>2. m < s[n]
        BY <4>1 DEF R
      <4> QED BY <3>2, <4>2
    <3> QED BY <2>5, <3>3, <3>4
  <2> QED BY <2>3, <2>5, <2>6
<1> QED BY <1>1, <1>2 DEF Highest

LEMMA CardTyped ==
  ASSUME NEW q \in Boarded, NEW f, NEW c \in CardsIn(q, f)
  PROVE  /\ c.key \in Int \X Int /\ c = CardOf(c.key, ServedIn(q, f))
         /\ c.priority \in Int /\ c.newest \in Int
         /\ \E w \in Held(q, f) : c.key = Key(SettledIn(q, w))
<1>1. PICK w \in Held(q, f) : c = CardOf(Key(SettledIn(q, w)), ServedIn(q, f))
  BY CardsAre
<1>2. w \in QRow
  BY DEF Held
<1>0. PICK k : k = Key(SettledIn(q, w))
  OBVIOUS
<1> DEFINE own == Members(q, f, k)
           P == Priorities(q, f, k)
           U == Updates(q, f, k)
<1>3. c = CardOf(k, ServedIn(q, f)) /\ c.key = k /\ c.priority = Lowest(P) /\ c.newest = Highest(U)
  BY <1>0, <1>1, CardNumbers
<1>4. k \in Int \X Int
  BY <1>0, <1>2, SettledTyped
<1>5. w \in own /\ own \subseteq QRow
  BY <1>0, <1>2 DEF Members, Held
<1>6. IsFiniteSet(own)
  BY <1>5, QueriesAssumption, FS_Subset
<1>7. \A v \in own : SettledIn(q, v).priority \in Nat /\ SettledIn(q, v).updated \in Nat
  BY <1>5, SettledTyped DEF Boarded, RowNow
<1>8. P \subseteq Nat /\ P # {} /\ U \subseteq Nat /\ U # {}
  BY <1>5, <1>7 DEF Priorities, Updates
<1>9. IsFiniteSet(P) /\ IsFiniteSet(U)
  <2> DEFINE p == [v \in own |-> SettledIn(q, v).priority]
             u == [v \in own |-> SettledIn(q, v).updated]
  <2>1. p \in Surjection(own, P) /\ u \in Surjection(own, U)
    BY DEF Surjection, Priorities, Updates
  <2> HIDE DEF own, P, U, p, u
  <2> QED BY <1>6, <2>1, FS_Surjection
<1> HIDE DEF own, P, U
<1>10. c.priority \in Int /\ c.newest \in Int
  <2>1. Lowest(P) \in P
    BY <1>8, <1>9, LowestHighest
  <2>2. Highest(U) \in U
    BY <1>8, <1>9, LowestHighest
  <2>3. c.priority \in Nat
    BY <1>3, <1>8, <2>1
  <2>4. c.newest \in Nat
    BY <1>3, <1>8, <2>2
  <2> QED BY <2>3, <2>4
<1> QED BY <1>0, <1>3, <1>4, <1>10

LEMMA RankTyped ==
  ASSUME NEW c, c.key \in Int \X Int, c.priority \in Int, c.newest \in Int
  PROVE  /\ RankSignature(c) \in Ranks
         /\ RankSignature(c)[1] = First(c.pinned \/ c.active \/ c.blocked \/ c.valued)
         /\ RankSignature(c)[2] = First(c.pinned) /\ RankSignature(c)[3] = First(c.active)
         /\ RankSignature(c)[4] = First(c.blocked) /\ RankSignature(c)[5] = First(c.valued)
         /\ RankSignature(c)[6] = c.priority /\ RankSignature(c)[7] = -c.newest
         /\ RankSignature(c)[8] = c.key[1] /\ RankSignature(c)[9] = c.key[2]
<1>1. \A b : First(b) \in Int
  BY DEF First
<1>2. c.key[1] \in Int /\ c.key[2] \in Int /\ -c.newest \in Int
  OBVIOUS
<1> DEFINE b1 == First(c.pinned \/ c.active \/ c.blocked \/ c.valued)
           b2 == First(c.pinned)
           b3 == First(c.active)
           b4 == First(c.blocked)
           b5 == First(c.valued)
<1>3. RankSignature(c) = <<b1, b2, b3, b4, b5, c.priority, -c.newest, c.key[1], c.key[2]>>
  BY DEF RankSignature
<1>5. b1 \in Int /\ b2 \in Int /\ b3 \in Int /\ b4 \in Int /\ b5 \in Int
  BY <1>1
<1> HIDE DEF b1, b2, b3, b4, b5
<1>6. LET a == RankSignature(c) IN
          /\ a \in Ranks /\ a[1] = b1 /\ a[2] = b2 /\ a[3] = b3 /\ a[4] = b4 /\ a[5] = b5 /\ a[6] = c.priority
          /\ a[7] = -c.newest /\ a[8] = c.key[1] /\ a[9] = c.key[2]
  <2>1. PICK m : m = -c.newest
    OBVIOUS
  <2>2. PICK k1, k2 : k1 = c.key[1] /\ k2 = c.key[2]
    OBVIOUS
  <2> DEFINE t == <<b1, b2, b3, b4, b5, c.priority, m, k1, k2>>
  <2>3. t \in Ranks
    BY <1>2, <1>5, <2>1, <2>2 DEF Ranks
  <2>4. /\ t[1] = b1 /\ t[2] = b2 /\ t[3] = b3 /\ t[4] = b4 /\ t[5] = b5 /\ t[6] = c.priority
        /\ t[7] = m /\ t[8] = k1 /\ t[9] = k2
    OBVIOUS
  <2>5. RankSignature(c) = t
    BY <1>3, <2>1, <2>2
  <2> HIDE DEF t
  <2> QED BY <2>1, <2>2, <2>3, <2>4, <2>5
<1> QED BY <1>6 DEF b1, b2, b3, b4, b5

\* The ranked workstreams: each of them, in order of rank.
RanksAll(r, S, n) ==
  /\ r \in [1 .. n -> S]
  /\ \A i, j \in 1 .. n : i < j => Precedes(RankSignature(r[i]), RankSignature(r[j]))
  /\ \A c \in S : \E i \in 1 .. n : r[i] = c

LEMMA RankedIs ==
  ASSUME NEW q \in Boarded, NEW f, NEW S, S \subseteq CardsIn(q, f)
  PROVE  \E n \in Nat : RanksAll(Ranked(S), S, n)
<1> DEFINE R == {p \in S \X S : Precedes(RankSignature(p[1]), RankSignature(p[2]))}
<1>1. IsFiniteSet(S)
  BY CardsAre, FS_Subset
<1>2. \A c \in S : RankSignature(c) \in Ranks
  BY CardTyped, RankTyped
<1>3. ASSUME NEW c \in S, NEW d \in S, RankSignature(c) = RankSignature(d) PROVE c = d
  <2>1. c.key \in Int \X Int /\ d.key \in Int \X Int /\ c.key[1] = d.key[1] /\ c.key[2] = d.key[2]
    <3>1. RankSignature(c)[8] = c.key[1] /\ RankSignature(c)[9] = c.key[2]
      BY CardTyped, RankTyped
    <3>2. RankSignature(d)[8] = d.key[1] /\ RankSignature(d)[9] = d.key[2]
      BY CardTyped, RankTyped
    <3> QED BY <1>3, <3>1, <3>2, CardTyped
  <2>2. c.key = d.key
    BY <2>1
  <2>3. c = CardOf(c.key, ServedIn(q, f)) /\ d = CardOf(d.key, ServedIn(q, f))
    BY CardTyped
  <2> QED BY <2>2, <2>3
<1>4. Orders(R, S)
  <2>1. \A c, d \in S : <<c, d>> \in R <=> Precedes(RankSignature(c), RankSignature(d))
    OBVIOUS
  <2> HIDE DEF R
  <2>2. \A c, d \in S : c # d => RankSignature(c) # RankSignature(d)
    BY <1>3
  <2>3. \A c, d \in S : c # d => <<c, d>> \in R \/ <<d, c>> \in R
    BY <1>2, <2>1, <2>2, RanksOrdered
  <2>4. \A c \in S : <<c, c>> \notin R
    BY <1>2, <2>1, RanksOrdered
  <2>5. \A c, d, e \in S : <<c, d>> \in R /\ <<d, e>> \in R => <<c, e>> \in R
    BY <1>2, <2>1, RanksOrdered
  <2> QED BY <2>3, <2>4, <2>5 DEF Orders
<1>5. PICK n, s0 : n \in Nat /\ n = Cardinality(S) /\ Lists(s0, S, R)
  <2> HIDE DEF R
  <2> QED BY <1>1, <1>4, OrderedListing
<1> DEFINE InRank(s) == \A i, j \in DOMAIN s : i < j => Precedes(RankSignature(s[i]), RankSignature(s[j]))
<1>6. s0 \in [1 .. n -> S] /\ InRank(s0)
  BY <1>5 DEF Lists
<1>7. PICK s : s = Ranked(S)
  OBVIOUS
<1>8. s = CHOOSE r \in [1 .. n -> S] : InRank(r)
  BY <1>5, <1>7 DEF Ranked
<1>9. s \in [1 .. n -> S] /\ InRank(s)
  <2> HIDE DEF InRank
  <2> QED BY <1>6, <1>8
<1>10. DOMAIN s = 1 .. n
  BY <1>9
<1>11. \A i, j \in 1 .. n : i < j => Precedes(RankSignature(s[i]), RankSignature(s[j]))
  BY <1>9, <1>10
<1>12. Lists(s, S, R)
  <2>1. \A i \in 1 .. n : s[i] \in S
    BY <1>9
  <2> QED BY <1>5, <1>9, <1>11, <2>1 DEF Lists
<1>13. \A c \in S : \E i \in 1 .. n : s[i] = c
  <2> HIDE DEF R
  <2> QED BY <1>1, <1>4, <1>5, <1>12, ListingIsWhole
<1>14. RanksAll(s, S, n)
  <2>1. s \in [1 .. n -> S]
    BY <1>9
  <2> QED BY <1>11, <1>13, <2>1, Zenon DEF RanksAll
<1> QED BY <1>5, <1>7, <1>14

\* A board grows older by a row whose lease ran out or whose process died.
Ages(q, p, w) ==
  /\ \A v \in QRow : v # w => p[v] = q[v]
  /\ p[w].plane = q[w].plane /\ p[w].stream = q[w].stream /\ p[w].pin = q[w].pin
  /\ p[w].priority = q[w].priority /\ p[w].updated = q[w].updated
  /\ StatusOf(p[w]) = "running" => StatusOf(q[w]) = "running"
  /\ StatusOf(p[w]) = "blocked" => StatusOf(q[w]) \in {"running", "blocked"}
Alike(x, y) ==
  /\ x.work = y.work /\ x.priority = y.priority /\ x.updated = y.updated
  /\ x.plane = y.plane /\ x.planeExact = y.planeExact /\ x.stream = y.stream /\ x.lineageExact = y.lineageExact
  /\ x.quarantined = y.quarantined /\ x.pinned = y.pinned /\ x.valued = y.valued
\* It lifts the workstream k: its row ran and is blocked now, and another runs on.
LiftsTo(q, p, w, k) ==
  /\ StatusOf(q[w]) = "running" /\ StatusOf(p[w]) = "blocked" /\ Key(SettledIn(q, w)) = k
  /\ \E v \in QRow : v # w /\ Key(SettledIn(q, v)) = k /\ SettledIn(q, v).status = "running"

LEMMA SettledAlike ==
  ASSUME NEW q \in Boarded, NEW p \in Boarded, NEW w \in QRow, Ages(q, p, w), NEW v \in QRow
  PROVE  Alike(SettledIn(p, v), SettledIn(q, v))
<1>1. \A u \in QRow : p[u].plane = q[u].plane /\ p[u].stream = q[u].stream /\ p[u].pin = q[u].pin
                      /\ p[u].priority = q[u].priority /\ p[u].updated = q[u].updated
  BY DEF Ages
<1>2. \A u \in QRow : Unplaced(p[u]) <=> Unplaced(q[u])
  BY <1>1 DEF Unplaced
<1>3. ASSUME NEW u \in QRow PROVE Alike(SpanIn(p, u), SpanIn(q, u))
  <2>1. CASE Unplaced(q[u])
    BY <1>1, <1>2, <2>1 DEF SpanIn, Alike
  <2>2. CASE ~Unplaced(q[u])
    <3>1. ~Unplaced(p[u])
      BY <1>2, <2>2
    <3>2. SpanIn(p, u).pinned = SpanIn(q, u).pinned /\ SpanIn(p, u).valued = SpanIn(q, u).valued
      BY <1>1, <2>2, <3>1 DEF SpanIn
    <3>3. SpanIn(p, u).planeExact = SpanIn(q, u).planeExact
      BY <1>1 DEF SpanIn
    <3>4. SpanIn(p, u).lineageExact = SpanIn(q, u).lineageExact /\ SpanIn(p, u).quarantined = SpanIn(q, u).quarantined
      <4>1. \A b \in {p, q} : SpanIn(b, u).lineageExact = TRUE /\ SpanIn(b, u).quarantined = FALSE
        BY <2>2, <3>1 DEF SpanIn, Unplaced
      <4> QED BY <4>1
    <3>5. /\ SpanIn(p, u).plane = SpanIn(q, u).plane /\ SpanIn(p, u).stream = SpanIn(q, u).stream
          /\ SpanIn(p, u).priority = SpanIn(q, u).priority /\ SpanIn(p, u).updated = SpanIn(q, u).updated
          /\ SpanIn(p, u).work = SpanIn(q, u).work
      BY <1>1, <2>2, <3>1 DEF SpanIn
    <3> QED BY <3>2, <3>3, <3>4, <3>5 DEF Alike
  <2> QED BY <2>1, <2>2
<1>4. ASSUME NEW s PROVE Mixed(SpansIn(p), s) <=> Mixed(SpansIn(q), s)
  <2> DEFINE planes(b) == {x.plane : x \in {y \in SpansIn(b) : y.stream = s /\ y.planeExact /\ y.lineageExact}}
             those(b) == {u \in QRow : SpanIn(b, u).stream = s /\ SpanIn(b, u).planeExact /\ SpanIn(b, u).lineageExact}
  <2>1. \A b : planes(b) = {SpanIn(b, u).plane : u \in those(b)}
    BY DEF SpansIn
  <2>2. those(p) = those(q) /\ \A u \in QRow : SpanIn(p, u).plane = SpanIn(q, u).plane
    BY <1>3 DEF Alike
  <2>3. planes(p) = planes(q)
    <3>1. planes(p) = {SpanIn(p, u).plane : u \in those(p)} /\ planes(q) = {SpanIn(q, u).plane : u \in those(q)}
      BY <2>1
    <3> HIDE DEF planes
    <3>2. those(p) \subseteq QRow
      OBVIOUS
    <3> HIDE DEF those
    <3> QED BY <2>2, <3>1, <3>2
  <2> QED BY <2>3 DEF Mixed
<1>5. Alike(SpanIn(p, v), SpanIn(q, v))
  BY <1>3
<1>6. \A x, y : Alike(x, y) /\ x \in {SpanIn(p, v)} /\ y \in {SpanIn(q, v)} =>
        Alike([x EXCEPT !.plane = Undecided, !.planeExact = FALSE, !.quarantined = TRUE],
              [y EXCEPT !.plane = Undecided, !.planeExact = FALSE, !.quarantined = TRUE])
  BY DEF Alike, SpanIn
<1>7. SpanIn(p, v).lineageExact = SpanIn(q, v).lineageExact /\ SpanIn(p, v).stream = SpanIn(q, v).stream
  BY <1>5 DEF Alike
<1> QED BY <1>4, <1>5, <1>6, <1>7 DEF SettledIn

LEMMA RankGrows ==
  ASSUME NEW c, c.key \in Int \X Int, c.priority \in Int, c.newest \in Int,
         NEW d, d.key = c.key, d.priority = c.priority, d.newest = c.newest,
         d.pinned <=> c.pinned, d.valued <=> c.valued, d.active => c.active,
         (c.active => d.active) => (d.blocked => c.blocked)
  PROVE  RankSignature(d) = RankSignature(c) \/ Precedes(RankSignature(c), RankSignature(d))
<1> PICK a : a = RankSignature(c)
  OBVIOUS
<1> PICK b : b = RankSignature(d)
  OBVIOUS
<1>1. /\ a \in Ranks /\ a[1] = First(c.pinned \/ c.active \/ c.blocked \/ c.valued)
      /\ a[2] = First(c.pinned) /\ a[3] = First(c.active) /\ a[4] = First(c.blocked) /\ a[5] = First(c.valued)
      /\ a[6] = c.priority /\ a[7] = -c.newest /\ a[8] = c.key[1] /\ a[9] = c.key[2]
  BY RankTyped
<1>2. /\ b \in Ranks /\ b[1] = First(d.pinned \/ d.active \/ d.blocked \/ d.valued)
      /\ b[2] = First(d.pinned) /\ b[3] = First(d.active) /\ b[4] = First(d.blocked) /\ b[5] = First(d.valued)
      /\ b[6] = d.priority /\ b[7] = -d.newest /\ b[8] = d.key[1] /\ b[9] = d.key[2]
  BY RankTyped
<1>3. \A i \in 6 .. 9 : a[i] = b[i]
  BY <1>1, <1>2
<1>4. a[2] = b[2] /\ a[5] = b[5]
  BY <1>1, <1>2 DEF First
<1>5. DOMAIN a = 1 .. 9 /\ DOMAIN b = 1 .. 9
  BY <1>1, <1>2 DEF Ranks
<1>6. a[1] \in {0, 1} /\ b[1] \in {0, 1} /\ a[3] \in {0, 1} /\ b[3] \in {0, 1} /\ a[4] \in {0, 1} /\ b[4] \in {0, 1}
  BY <1>1, <1>2 DEF First
<1>7. \/ a[3] = 0 /\ b[3] = 1 /\ a[1] = 0
      \/ a[3] = b[3] /\ a[4] = 0 /\ b[4] = 1 /\ a[1] = 0
      \/ a[3] = b[3] /\ a[4] = b[4] /\ a[1] = b[1]
  <2>1. CASE c.active /\ ~d.active
    BY <1>1, <1>2, <2>1 DEF First
  <2>2. CASE (c.active => d.active) /\ c.blocked /\ ~d.blocked
    BY <1>1, <1>2, <2>2 DEF First
  <2>3. CASE (c.active => d.active) /\ (c.blocked <=> d.blocked)
    BY <1>1, <1>2, <2>3 DEF First
  <2> QED BY <2>1, <2>2, <2>3
<1>8. CASE a[1] = 0 /\ b[1] = 1
  BY <1>5, <1>8 DEF Precedes
<1>9. CASE a[1] = b[1] /\ a[3] = 0 /\ b[3] = 1
  <2>1. \A j \in 1 .. 3 - 1 : a[j] = b[j]
    BY <1>4, <1>9
  <2> QED BY <1>5, <1>9, <2>1 DEF Precedes
<1>10. CASE a[1] = b[1] /\ a[3] = b[3] /\ a[4] = 0 /\ b[4] = 1
  <2>1. \A j \in 1 .. 4 - 1 : a[j] = b[j]
    BY <1>4, <1>10
  <2> QED BY <1>5, <1>10, <2>1 DEF Precedes
<1>11. CASE a[1] = b[1] /\ a[3] = b[3] /\ a[4] = b[4]
  <2>1. \A i \in 1 .. 9 : a[i] = b[i]
    BY <1>3, <1>4, <1>11
  <2>2. a = b
    BY <1>1, <1>2, <2>1 DEF Ranks
  <2> QED BY <2>2
<1> QED BY <1>6, <1>7, <1>8, <1>9, <1>10, <1>11

\* An older board has the card still, and no earlier in the ranks unless it was lifted.
LEMMA CardAges ==
  ASSUME NEW q \in Boarded, NEW p \in Boarded, NEW w \in QRow, Ages(q, p, w),
         NEW f, f.statuses = {}, NEW c \in CardsIn(q, f), ~LiftsTo(q, p, w, c.key)
  PROVE  \E d \in CardsIn(p, f) :
           d.key = c.key /\ (RankSignature(d) = RankSignature(c) \/ Precedes(RankSignature(c), RankSignature(d)))
<1>1. PICK k : k = c.key
  OBVIOUS
<1>2. PICK v0 \in Held(q, f) : k = Key(SettledIn(q, v0))
  BY <1>1, CardTyped
<1>3. PICK d : d = CardOf(k, ServedIn(p, f))
  OBVIOUS
<1>4. c = CardOf(k, ServedIn(q, f)) /\ k \in Int \X Int /\ c.priority \in Int /\ c.newest \in Int
  BY <1>1, CardTyped
<1>5. \A v \in QRow : Alike(SettledIn(p, v), SettledIn(q, v))
  BY SettledAlike
<1>6. \A v \in QRow : Key(SettledIn(p, v)) = Key(SettledIn(q, v)) /\ (Matches(SettledIn(p, v), f) <=> Matches(SettledIn(q, v), f))
  BY <1>5 DEF Alike, Key, Matches
<1>7. Held(p, f) = Held(q, f) /\ Members(p, f, k) = Members(q, f, k)
  BY <1>6 DEF Held, Members
<1>8. d \in CardsIn(p, f)
  <2>1. v0 \in Held(p, f) /\ k = Key(SettledIn(p, v0))
    BY <1>2, <1>6, <1>7 DEF Held
  <2> QED BY <1>3, <2>1, CardsAre
<1>9. Priorities(p, f, k) = Priorities(q, f, k) /\ Updates(p, f, k) = Updates(q, f, k)
  <2>1. \A v \in Members(q, f, k) : v \in QRow
    BY DEF Members
  <2>2. \A v \in Members(q, f, k) :
          SettledIn(p, v).priority = SettledIn(q, v).priority /\ SettledIn(p, v).updated = SettledIn(q, v).updated
    BY <1>5, <2>1 DEF Alike
  <2> QED BY <1>7, <2>2 DEF Priorities, Updates
<1>10. d.key = k /\ d.priority = c.priority /\ d.newest = c.newest
  BY <1>3, <1>4, <1>9, CardNumbers
<1>11. \A v \in QRow : SettledIn(p, v).status = StatusOf(p[v]) /\ SettledIn(q, v).status = StatusOf(q[v])
  BY SettledTyped
<1>12. Members(q, f, k) \subseteq QRow /\ \A v \in Members(q, f, k) : Key(SettledIn(q, v)) = k
  BY DEF Members
<1> DEFINE M == Members(q, f, k)
<1>13. /\ c.pinned <=> \E v \in M : SettledIn(q, v).pinned
       /\ c.active <=> \E v \in M : SettledIn(q, v).status = "running"
       /\ c.blocked <=> \E v \in M : SettledIn(q, v).status = "blocked"
       /\ c.valued <=> \E v \in M : SettledIn(q, v).valued
  BY <1>4, CardSigns
<1>14. /\ d.pinned <=> \E v \in M : SettledIn(p, v).pinned
       /\ d.active <=> \E v \in M : SettledIn(p, v).status = "running"
       /\ d.blocked <=> \E v \in M : SettledIn(p, v).status = "blocked"
       /\ d.valued <=> \E v \in M : SettledIn(p, v).valued
  BY <1>3, <1>7, CardSigns
<1> HIDE DEF M
<1>15. \A v \in M : v \in QRow /\ Key(SettledIn(q, v)) = k
  BY <1>12 DEF M
<1>16. (d.pinned <=> c.pinned) /\ (d.valued <=> c.valued)
  BY <1>5, <1>13, <1>14, <1>15 DEF Alike
<1>17. \A v \in QRow : v # w => StatusOf(p[v]) = StatusOf(q[v])
  BY DEF Ages
<1>18. d.active => c.active
  BY <1>11, <1>13, <1>14, <1>15, <1>17 DEF Ages
<1>19. ASSUME c.active => d.active, d.blocked PROVE c.blocked
  <2>1. SUFFICES ASSUME ~c.blocked PROVE FALSE
    OBVIOUS
  <2>2. PICK u \in M : StatusOf(p[u]) = "blocked"
    BY <1>11, <1>14, <1>15, <1>19
  <2>3. StatusOf(q[u]) # "blocked"
    BY <1>11, <1>13, <1>15, <2>1
  <2>4. u = w /\ StatusOf(q[w]) = "running"
    BY <1>15, <1>17, <2>2, <2>3 DEF Ages
  <2>5. d.active
    BY <1>11, <1>13, <1>15, <1>19, <2>4
  <2>6. PICK v \in M : StatusOf(p[v]) = "running"
    BY <1>11, <1>14, <1>15, <2>5
  <2>7. v # w /\ StatusOf(q[v]) = "running" /\ v \in QRow
    BY <1>15, <1>17, <2>2, <2>4, <2>6
  <2> QED BY <1>1, <1>11, <1>15, <2>2, <2>4, <2>7 DEF LiftsTo
<1> QED BY <1>1, <1>4, <1>8, <1>10, <1>16, <1>18, <1>19, RankGrows

\* A workstream is still to come: its card is in store after the cursor.
Follows(last, q, f, k) == \E c \in CardsIn(q, f) : c.key = k /\ Precedes(last, RankSignature(c))
Paging ==
  [pc : {"idle", "more", "done", "cut"}, fence : Nat, filter : Filters \cup {"none"}, last : Ranks \cup {<< >>},
   shown : SUBSET (Int \X Int), due : SUBSET (Int \X Int), lifted : SUBSET (Int \X Int)]
PagingType == qrow \in Boarded /\ seq \in Nat /\ reader \in Paging /\ reader.fence <= seq
StillToCome ==
  reader.pc = "more" /\ reader.filter.statuses = {} /\ reader.fence = seq =>
    /\ reader.last \in Ranks
    /\ \A k \in reader.due : k \in reader.shown \cup reader.lifted \/ Follows(reader.last, qrow, reader.filter, k)
PagingInv == PagingType /\ StillToCome /\ PagedMeansSeen

LEMMA PagingStart == QueriesInit => PagingInv
<1> SUFFICES ASSUME QueriesInit PROVE PagingInv
  OBVIOUS
<1>1. qrow \in Boarded
  <2>1. qrow \in [QRow -> QueryRow]
    BY QueriesAssumption DEF QueriesInit
  <2>2. QueryRow \subseteq RowNow
    BY DEF QueryRow, RowNow
  <2> QED BY <2>1, <2>2 DEF Boarded
<1>2. reader \in Paging /\ reader.pc = "idle" /\ reader.fence = 0 /\ seq = 0
  BY DEF QueriesInit, NoPaging, Paging
<1> QED BY <1>1, <1>2 DEF PagingInv, PagingType, StillToCome, PagedMeansSeen

\* Growing older, a board keeps after the cursor what is there, unless it lifts it.
LEMMA StillComes ==
  ASSUME NEW q \in Boarded, NEW p \in Boarded, NEW w \in QRow, Ages(q, p, w),
         NEW f, f.statuses = {}, NEW last \in Ranks, NEW k, Follows(last, q, f, k), ~LiftsTo(q, p, w, k)
  PROVE  Follows(last, p, f, k)
<1>1. PICK c \in CardsIn(q, f) : c.key = k /\ Precedes(last, RankSignature(c))
  BY DEF Follows
<1>2. PICK d \in CardsIn(p, f) :
        d.key = c.key /\ (RankSignature(d) = RankSignature(c) \/ Precedes(RankSignature(c), RankSignature(d)))
  BY <1>1, CardAges
<1>3. RankSignature(c) \in Ranks /\ RankSignature(d) \in Ranks
  BY CardTyped, RankTyped
<1>4. Precedes(last, RankSignature(d))
  BY <1>1, <1>2, <1>3, RanksOrdered
<1> QED BY <1>1, <1>2, <1>4 DEF Follows

\* What is due was seen, or is among the cards S.
Accounted(f, S, due, seen) == f.statuses = {} => \A k \in due : k \in seen \/ \E c \in S : c.key = k

\* A page is read: what of the due is left comes after its last card.
LEMMA PageKeepsPaging ==
  ASSUME PagingInv, NEW f \in Filters, NEW S, S \subseteq CardsIn(qrow, f),
         NEW shown \in SUBSET (Int \X Int), NEW due \in SUBSET (Int \X Int), ReadsPage(f, Ranked(S), shown, due),
         Accounted(f, S, due, shown \cup reader.lifted)
  PROVE  PagingInv'
<1>0. qrow \in Boarded /\ seq \in Nat /\ reader \in Paging
  BY DEF PagingInv, PagingType
<1> PICK r : r = Ranked(S)
  OBVIOUS
<1>1. PICK n \in Nat :
        /\ r \in [1 .. n -> S]
        /\ \A i, j \in 1 .. n : i < j => Precedes(RankSignature(r[i]), RankSignature(r[j]))
        /\ \A c \in S : \E i \in 1 .. n : r[i] = c
  <2>1. PICK n \in Nat : RanksAll(r, S, n)
    BY <1>0, RankedIs
  <2> QED BY <2>1 DEF RanksAll
<1>2. r \in Seq(S) /\ Len(r) = n
  BY <1>1
<1>3. PICK page \in PagesOf(r) :
        reader' = [pc |-> Continuation(page, r), fence |-> seq, filter |-> f,
                   last |-> IF page = << >> THEN << >> ELSE RankSignature(page[Len(page)]),
                   shown |-> shown \cup KeysOf(page), due |-> due, lifted |-> reader.lifted]
  BY DEF ReadsPage
<1>4. qrow' = qrow /\ seq' = seq
  BY DEF ReadsPage
<1>5. PICK m \in 0 .. n : page = SubSeq(r, 1, m)
  BY <1>2, <1>3 DEF PagesOf
<1>6. page \in Seq(S) /\ Len(page) = m /\ \A i \in 1 .. m : page[i] = r[i]
  BY <1>2, <1>5
<1>7. page = << >> <=> m = 0
  <2>1. m = 0 => page = << >>
    <3>1. Len(page) = m /\ page \in Seq(S)
      BY <1>6
    <3> QED BY <3>1
  <2>2. page = << >> => m = 0
    BY <1>6
  <2> QED BY <2>1, <2>2
<1>8. \A c \in S : c.key \in Int \X Int /\ RankSignature(c) \in Ranks
  BY <1>0, CardTyped, RankTyped
<1>9. \A k : k \in KeysOf(page) <=> \E i \in 1 .. m : k = r[i].key
  <2>1. DOMAIN page = 1 .. m
    BY <1>6
  <2> QED BY <1>6, <2>1 DEF KeysOf
<1>10. KeysOf(page) \subseteq Int \X Int
  <2> SUFFICES ASSUME NEW k \in KeysOf(page) PROVE k \in Int \X Int
    OBVIOUS
  <2>1. PICK i \in 1 .. m : k = r[i].key
    BY <1>9
  <2>2. r[i] \in S
    BY <1>1
  <2> QED BY <1>8, <2>1, <2>2
<1>11. m # 0 => page[Len(page)] = r[m] /\ RankSignature(r[m]) \in Ranks
  BY <1>1, <1>6, <1>8
<1> PICK last : last = IF page = << >> THEN << >> ELSE RankSignature(page[Len(page)])
  OBVIOUS
<1>12. last \in Ranks \cup {<< >>} /\ (m # 0 => last = RankSignature(r[m]))
  BY <1>7, <1>11
<1> PICK pc : pc = Continuation(page, r)
  OBVIOUS
<1>13. pc \in {"more", "done", "cut"} /\ (pc = "done" <=> m = n) /\ (pc = "more" => m # 0)
  BY <1>2, <1>6, <1>7 DEF Continuation
<1>14. reader' = [pc |-> pc, fence |-> seq, filter |-> f, last |-> last,
                  shown |-> shown \cup KeysOf(page), due |-> due, lifted |-> reader.lifted]
  BY <1>3
<1>15. /\ reader'.pc = pc /\ reader'.fence = seq /\ reader'.filter = f /\ reader'.last = last
       /\ reader'.shown = shown \cup KeysOf(page) /\ reader'.due = due /\ reader'.lifted = reader.lifted
  BY <1>14
<1>16. PagingType'
  <2>1. reader.lifted \in SUBSET (Int \X Int)
    BY <1>0 DEF Paging
  <2>2. reader' \in Paging
    BY <1>0, <1>10, <1>12, <1>13, <1>14, <2>1 DEF Paging
  <2> QED BY <1>0, <1>4, <1>15, <2>2 DEF PagingType
<1>17. ASSUME f.statuses = {}, NEW k \in due, k \notin shown \cup KeysOf(page) \cup reader.lifted
       PROVE  \E i \in m + 1 .. n : r[i].key = k /\ r[i] \in CardsIn(qrow, f) /\ (m # 0 => Precedes(RankSignature(r[m]), RankSignature(r[i])))
  <2>1. PICK c \in S : c.key = k
    BY <1>17 DEF Accounted
  <2>2. PICK i \in 1 .. n : r[i] = c
    BY <1>1
  <2>3. i \notin 1 .. m
    BY <1>9, <1>17, <2>1, <2>2
  <2>4. i \in m + 1 .. n /\ (m # 0 => m \in 1 .. n /\ m < i)
    BY <2>2, <2>3
  <2> QED BY <1>1, <2>1, <2>2, <2>4
<1>18. StillToCome'
  <2>1. SUFFICES ASSUME pc = "more", f.statuses = {}, NEW k \in due, k \notin shown \cup KeysOf(page) \cup reader.lifted
                 PROVE  Follows(last, qrow, f, k)
    <3>1. pc = "more" => last \in Ranks
      BY <1>7, <1>11, <1>12, <1>13
    <3> QED BY <1>4, <1>15, <2>1, <3>1 DEF StillToCome
  <2> QED BY <1>12, <1>13, <1>17, <2>1 DEF Follows
<1>19. PagedMeansSeen'
  <2>1. SUFFICES ASSUME pc = "done", f.statuses = {}, NEW k \in due PROVE k \in shown \cup KeysOf(page) \cup reader.lifted
    BY <1>15 DEF PagedMeansSeen
  <2>2. m + 1 .. n = {}
    BY <1>13, <2>1
  <2> QED BY <1>17, <2>1, <2>2
<1> QED BY <1>16, <1>18, <1>19 DEF PagingInv

\* A board that grows older keeps what is to come, or notes what it lifted.
LEMMA AgeKeepsPaging ==
  ASSUME PagingInv, NEW w \in QRow, qrow' \in Boarded, Ages(qrow, qrow', w), seq' = seq,
         NEW more \in SUBSET (Int \X Int),
         reader' = reader \/ reader' = [reader EXCEPT !.lifted = @ \cup more],
         reader.pc = "more" => \A k : LiftsTo(qrow, qrow', w, k) => k \in more /\ reader'.lifted = reader.lifted \cup more
  PROVE  PagingInv'
<1>1. qrow \in Boarded /\ seq \in Nat /\ reader \in Paging /\ reader.fence <= seq
  BY DEF PagingInv, PagingType
<1>2. /\ reader'.pc = reader.pc /\ reader'.fence = reader.fence /\ reader'.filter = reader.filter
      /\ reader'.last = reader.last /\ reader'.shown = reader.shown /\ reader'.due = reader.due
      /\ reader'.lifted \in {reader.lifted, reader.lifted \cup more}
  BY <1>1 DEF Paging
<1>3. reader' \in Paging
  BY <1>1 DEF Paging
<1>4. PagingType'
  BY <1>1, <1>2, <1>3 DEF PagingType
<1>5. PagedMeansSeen'
  BY <1>2 DEF PagingInv, PagedMeansSeen
<1>6. StillToCome'
  <2>1. SUFFICES ASSUME reader.pc = "more", reader.filter.statuses = {}, reader.fence = seq,
                        NEW k \in reader.due, k \notin reader.shown \cup reader'.lifted
                 PROVE  Follows(reader.last, qrow', reader.filter, k)
    BY <1>2 DEF PagingInv, StillToCome
  <2>2. reader.last \in Ranks /\ Follows(reader.last, qrow, reader.filter, k)
    BY <1>2, <2>1 DEF PagingInv, StillToCome
  <2>3. ~LiftsTo(qrow, qrow', w, k)
    BY <2>1
  <2> QED BY <1>1, <2>1, <2>2, <2>3, StillComes
<1> QED BY <1>4, <1>5, <1>6 DEF PagingInv

LEMMA WriteKeepsPaging ==
  ASSUME PagingInv, qrow' \in Boarded, seq' = seq + 1, reader' = reader
  PROVE  PagingInv'
<1>1. seq \in Nat /\ reader \in Paging /\ reader.fence <= seq
  BY DEF PagingInv, PagingType
<1>2. reader.fence \in Nat
  BY <1>1 DEF Paging
<1>3. reader.fence # seq + 1 /\ reader.fence <= seq + 1 /\ seq + 1 \in Nat
  BY <1>1, <1>2
<1>4. PagingType'
  BY <1>1, <1>3 DEF PagingType
<1> QED BY <1>3, <1>4 DEF PagingInv, StillToCome, PagedMeansSeen

LEMMA RowsStayRows ==
  ASSUME PagingInv, NEW w \in QRow, NEW row, WritesRow(w, row), row \in RowNow
  PROVE  PagingInv'
<1>1. qrow' \in Boarded
  BY DEF WritesRow, PagingInv, PagingType, Boarded
<1> QED BY <1>1, WriteKeepsPaging DEF WritesRow

LEMMA LapseKeepsPaging == ASSUME PagingInv, NEW w \in QRow, LeaseLapses(w) PROVE PagingInv'
<1>1. qrow \in Boarded /\ qrow[w] \in RowNow
  BY DEF PagingInv, PagingType, Boarded
<1> PICK row : row = [qrow[w] EXCEPT !.leased = FALSE]
  OBVIOUS
<1>2. row \in RowNow
  BY <1>1 DEF RowNow
<1>3. /\ row.plane = qrow[w].plane /\ row.stream = qrow[w].stream /\ row.pin = qrow[w].pin
      /\ row.priority = qrow[w].priority /\ row.updated = qrow[w].updated
      /\ row.claim = qrow[w].claim /\ row.intent = qrow[w].intent /\ row.leased = FALSE
      /\ row.pid = qrow[w].pid /\ qrow[w].pid \in BOOLEAN
  BY <1>1 DEF RowNow
<1>4. qrow' = [qrow EXCEPT ![w] = row] /\ seq' = seq /\ reader' = reader
  BY DEF LeaseLapses
<1>5. qrow' \in Boarded /\ qrow'[w] = row /\ \A v \in QRow : v # w => qrow'[v] = qrow[v]
  BY <1>1, <1>2, <1>4 DEF Boarded
<1>6. StatusOf(row) \in {"running", "blocked"} => StatusOf(qrow[w]) = StatusOf(row)
  <2>1. CASE row.pid
    BY <1>3, <2>1 DEF StatusOf
  <2>2. CASE ~row.pid /\ row.claim # "none"
    BY <1>3, <2>2 DEF StatusOf
  <2>3. CASE ~row.pid /\ row.claim = "none"
    BY <1>3, <2>3 DEF StatusOf
  <2> QED BY <2>1, <2>2, <2>3
<1>7. Ages(qrow, qrow', w)
  BY <1>3, <1>5, <1>6 DEF Ages
<1>8. \A k : ~LiftsTo(qrow, qrow', w, k)
  <2>1. SUFFICES ASSUME NEW k, LiftsTo(qrow, qrow', w, k) PROVE FALSE
    OBVIOUS
  <2>2. StatusOf(row) = "blocked" /\ StatusOf(qrow[w]) = "running"
    BY <1>5, <2>1 DEF LiftsTo
  <2> QED BY <1>6, <2>2
<1> QED BY <1>4, <1>5, <1>7, <1>8, AgeKeepsPaging

LEMMA DeathKeepsPaging == ASSUME PagingInv, NEW w \in QRow, ProcessDies(w) PROVE PagingInv'
<1>1. qrow \in Boarded /\ qrow[w] \in RowNow /\ reader \in Paging
  BY DEF PagingInv, PagingType, Boarded
<1> PICK row : row = [qrow[w] EXCEPT !.pid = FALSE]
  OBVIOUS
<1>2. row \in RowNow
  BY <1>1 DEF RowNow
<1>3. /\ row.plane = qrow[w].plane /\ row.stream = qrow[w].stream /\ row.pin = qrow[w].pin
      /\ row.priority = qrow[w].priority /\ row.updated = qrow[w].updated
  BY <1>1 DEF RowNow
<1>4. qrow' = [qrow EXCEPT ![w] = row] /\ seq' = seq /\ qrow[w].pid
  BY DEF ProcessDies
<1>5. qrow' \in Boarded /\ qrow'[w] = row /\ \A v \in QRow : v # w => qrow'[v] = qrow[v]
  BY <1>1, <1>2, <1>4 DEF Boarded
<1>6. StatusOf(qrow[w]) = "running"
  BY <1>4 DEF StatusOf
<1>7. Ages(qrow, qrow', w)
  BY <1>3, <1>5, <1>6 DEF Ages
<1> PICK more : more = {Key(SettledIn(qrow, w))}
  OBVIOUS
<1>8. more \in SUBSET (Int \X Int)
  BY <1>1, SettledTyped
<1>9. {Key(x) : x \in {y \in Normalized : y.work = w}} = more
  <2>1. {y \in Normalized : y.work = w} = {SettledIn(qrow, w)}
    BY <1>1, NormalizedIs, SettledTyped DEF AllSettled
  <2> QED BY <2>1
<1>10. reader' = IF reader.pc = "more" /\ Lifts(w) THEN [reader EXCEPT !.lifted = @ \cup more] ELSE reader
  BY <1>9 DEF ProcessDies
<1>11. ASSUME reader.pc = "more", NEW k, LiftsTo(qrow, qrow', w, k)
       PROVE  k \in more /\ reader'.lifted = reader.lifted \cup more
  <2>1. k \in more
    BY <1>11 DEF LiftsTo
  <2>2. PICK v \in QRow : v # w /\ Key(SettledIn(qrow, v)) = k /\ SettledIn(qrow, v).status = "running"
    BY <1>11 DEF LiftsTo
  <2>3. SettledIn(qrow, w) \in Normalized /\ SettledIn(qrow, v) \in Normalized
    BY NormalizedIs DEF AllSettled
  <2>4. SettledIn(qrow, w).work = w /\ SettledIn(qrow, v).work = v /\ Key(SettledIn(qrow, w)) = k
    BY <1>1, <1>11, SettledTyped DEF LiftsTo
  <2>5. StatusOf(row) = "blocked"
    BY <1>5, <1>11 DEF LiftsTo
  <2>6. Lifts(w)
    BY <2>2, <2>3, <2>4, <2>5 DEF Lifts
  <2>7. reader'.lifted = reader.lifted \cup more
    BY <1>1, <1>10, <1>11, <2>6 DEF Paging
  <2> QED BY <2>1, <2>7
<1>12. reader' = reader \/ reader' = [reader EXCEPT !.lifted = @ \cup more]
  BY <1>10
<1>13. reader.pc = "more" => \A k : LiftsTo(qrow, qrow', w, k) => k \in more /\ reader'.lifted = reader.lifted \cup more
  BY <1>11
<1> QED BY <1>4, <1>5, <1>7, <1>8, <1>12, <1>13, AgeKeepsPaging

LEMMA FirstPageKeepsPaging == ASSUME PagingInv, NEW f \in Filters, FirstPage(f) PROVE PagingInv'
<1> PICK S : S = CardsIn(qrow, f)
  OBVIOUS
<1>1. ReadsPage(f, Ranked(S), {}, KeysOf(Ranked(S)))
  BY NormalizedIs DEF FirstPage
<1>2. qrow \in Boarded
  BY DEF PagingInv, PagingType
<1>3. PICK n \in Nat : RanksAll(Ranked(S), S, n)
  BY <1>2, RankedIs
<1>4. \A k \in KeysOf(Ranked(S)) : \E c \in S : c.key = k
  BY <1>3 DEF RanksAll, KeysOf
<1>5. Accounted(f, S, KeysOf(Ranked(S)), {} \cup reader.lifted)
  BY <1>4 DEF Accounted
<1>6. KeysOf(Ranked(S)) \in SUBSET (Int \X Int)
  BY <1>2, <1>4, CardTyped
<1>7. {} \in SUBSET (Int \X Int)
  OBVIOUS
<1> QED BY <1>1, <1>5, <1>6, <1>7, PageKeepsPaging

LEMMA NextPageKeepsPaging == ASSUME PagingInv, NEW f \in Filters, NextPage(f) PROVE PagingInv'
<1> PICK S : S = {c \in CardsIn(qrow, f) : Precedes(reader.last, RankSignature(c))}
  OBVIOUS
<1>1. ReadsPage(f, Ranked(S), reader.shown, reader.due) /\ reader.pc = "more" /\ reader.fence = seq /\ reader.filter = f
  <2>1. WorkCards(EligibleSpans(f)) = CardsIn(qrow, f)
    BY NormalizedIs
  <2> QED BY <2>1 DEF NextPage, FenceHolds
<1>2. S \subseteq CardsIn(qrow, f)
  OBVIOUS
<1>3. reader.shown \in SUBSET (Int \X Int) /\ reader.due \in SUBSET (Int \X Int)
  BY DEF PagingInv, PagingType, Paging
<1>4. Accounted(f, S, reader.due, reader.shown \cup reader.lifted)
  <2> SUFFICES ASSUME f.statuses = {}, NEW k \in reader.due, k \notin reader.shown \cup reader.lifted
               PROVE  \E c \in S : c.key = k
    BY DEF Accounted
  <2>1. Follows(reader.last, qrow, f, k)
    BY <1>1 DEF PagingInv, StillToCome
  <2>2. PICK c \in CardsIn(qrow, f) : c.key = k /\ Precedes(reader.last, RankSignature(c))
    BY <2>1 DEF Follows
  <2>3. c \in S
    BY <2>2
  <2> QED BY <2>2, <2>3
<1> QED BY <1>1, <1>2, <1>3, <1>4, PageKeepsPaging

LEMMA PagingKept == PagingInv /\ [QueriesNext]_queryVars => PagingInv'
<1> SUFFICES ASSUME PagingInv, [QueriesNext]_queryVars PROVE PagingInv'
  OBVIOUS
<1>1. CASE UNCHANGED <<qrow, seq, reader>>
  BY <1>1 DEF PagingInv, PagingType, StillToCome, PagedMeansSeen
<1>2. \A w \in QRow : qrow[w] \in RowNow
  BY DEF PagingInv, PagingType, Boarded
<1>3. seq \in Nat /\ qrow \in Boarded
  BY DEF PagingInv, PagingType
<1>4. ASSUME NEW w \in QRow, NEW p \in QPlane \cup {Undecided}, NEW s \in QStream, NEW pin \in Pins, Declares(w, p, s, pin)
      PROVE  PagingInv'
  <2>1. p \in Int /\ s \in Int
    BY QueriesAssumption DEF Undecided
  <2>2. [qrow[w] EXCEPT !.plane = p, !.stream = s, !.pin = pin] \in RowNow
    BY <1>2, <2>1 DEF RowNow
  <2> QED BY <1>4, <2>2, RowsStayRows DEF Declares
<1>5. ASSUME NEW w \in QRow, NEW status \in {"running", "blocked"}, TakesClaim(w, status) PROVE PagingInv'
  <2> PICK r : r = qrow[w]
    OBVIOUS
  <2> PICK half : half = [r EXCEPT !.claim = status]
    OBVIOUS
  <2> PICK row : row = [half EXCEPT !.leased = TRUE]
    OBVIOUS
  <2>0. r \in RowNow
    BY <1>2
  <2>1. half \in RowNow
    BY <2>0 DEF RowNow
  <2>4. row \in RowNow
    BY <2>1 DEF RowNow
  <2>2. [row EXCEPT !.updated = seq + 1] \in RowNow
    <3> PICK n \in Nat : n = seq + 1
      BY <1>3
    <3>1. [row EXCEPT !.updated = n] \in RowNow
      BY <2>4 DEF RowNow
    <3> QED BY <3>1
  <2>3. [qrow[w] EXCEPT !.claim = status, !.leased = TRUE, !.updated = seq + 1] = [row EXCEPT !.updated = seq + 1]
    OBVIOUS
  <2> QED BY <1>5, <2>2, <2>3, RowsStayRows DEF TakesClaim
<1>6. ASSUME NEW w \in QRow, NEW intent \in {"planned", "blocked"}, SetsIntent(w, intent) PROVE PagingInv'
  <2> PICK r : r = qrow[w]
    OBVIOUS
  <2> PICK row : row = [r EXCEPT !.intent = intent]
    OBVIOUS
  <2>0. r \in RowNow
    BY <1>2
  <2>4. row \in RowNow
    BY <2>0 DEF RowNow
  <2>2. [row EXCEPT !.updated = seq + 1] \in RowNow
    <3> PICK n \in Nat : n = seq + 1
      BY <1>3
    <3>1. [row EXCEPT !.updated = n] \in RowNow
      BY <2>4 DEF RowNow
    <3> QED BY <3>1
  <2>3. [qrow[w] EXCEPT !.intent = intent, !.updated = seq + 1] = [row EXCEPT !.updated = seq + 1]
    OBVIOUS
  <2> QED BY <1>6, <2>2, <2>3, RowsStayRows DEF SetsIntent
<1>7. CASE RollsPolicyBack
  BY <1>3, <1>7, WriteKeepsPaging DEF RollsPolicyBack
<1>8. ASSUME NEW f \in Filters, RestartsQuery(f) PROVE PagingInv'
  <2>1. reader' = NoPaging /\ qrow' = qrow /\ seq' = seq
    BY <1>8 DEF RestartsQuery
  <2>2. NoPaging \in Paging /\ NoPaging.pc = "idle" /\ NoPaging.fence = 0
    BY DEF NoPaging, Paging
  <2> QED BY <1>3, <2>1, <2>2 DEF PagingInv, PagingType, StillToCome, PagedMeansSeen
<1>9. CASE \E w \in QRow :
        \/ \E p \in QPlane \cup {Undecided}, s \in QStream, pin \in Pins : Declares(w, p, s, pin)
        \/ \E status \in {"running", "blocked"} : TakesClaim(w, status)
        \/ SetsIntent(w, IF qrow[w].intent = "planned" THEN "blocked" ELSE "planned")
        \/ LeaseLapses(w) \/ ProcessDies(w)
  BY <1>4, <1>5, <1>6, <1>9, LapseKeepsPaging, DeathKeepsPaging
<1>10. CASE \E f \in Filters : FirstPage(f) \/ NextPage(f) \/ RestartsQuery(f) \/ SearchesHistory(f)
  <2>1. ASSUME NEW f \in Filters, SearchesHistory(f) PROVE PagingInv'
    BY <1>1, <2>1 DEF SearchesHistory, Responds
  <2> QED BY <1>8, <1>10, <2>1, FirstPageKeepsPaging, NextPageKeepsPaging
<1>11. CASE SearchesQuarantine \/ FlatRows \/ (\E s \in QStream : ExpandsWorkstream(s)) \/ (\E n \in 0 .. PageCap : TakesCapsule(n))
  BY <1>1, <1>11 DEF SearchesQuarantine, FlatRows, ExpandsWorkstream, TakesCapsule, Responds
<1>12. CASE UNCHANGED queryVars
  BY <1>1, <1>12 DEF queryVars
<1> QED BY <1>7, <1>9, <1>10, <1>11, <1>12 DEF QueriesNext

\* A reader that pages to the end saw every workstream its first page had in store,
\* though leases lapsed and processes died between its pages and moved the ranks:
\* all but those a death moved up, past the cursor (work_query_v2).
THEOREM PagedMeansSeenHolds == QueriesSpec => []PagedMeansSeen
<1>1. PagingInv => PagedMeansSeen
  BY DEF PagingInv
<1> QED BY <1>1, PagingStart, PagingKept, PTL DEF QueriesSpec

-----------------------------------------------------------------------------
(* The federated search.  Sorting rearranges, and deduplication leaves one *)
(* hit of each key, so what is left out is what a cap or the budget cut.   *)

FedHit == [source : Source, id : Nat, work : Nat, score : Nat, edition : Nat]
OneIdEach(entries) == \A a, b \in entries : a.id = b.id => a = b
StoresOK ==
  /\ stock \in [Source -> SUBSET StoreEntry]
  /\ \A s \in Source : IsFiniteSet(stock[s]) /\ OneIdEach(stock[s] \cup Entry)
SearchUnderWay ==
  [on : BOOLEAN, next : Nat \ {0}, focus : BOOLEAN, hits : Seq(FedHit), cut : BOOLEAN, failed : SUBSET Source]
PacketMade ==
  [made : {"none", "packet", "pack"}, hits : Seq(FedHit), returned : SUBSET FedHit,
   failed : SUBSET Source, errors : SUBSET Source, truncated : BOOLEAN]
PointerRead == [state : Source \cup {"none", "read", "refused", "note", "missing"}, edition : Nat, got : Nat]
FedTypeOK ==
  /\ StoresOK /\ edition \in Nat /\ moves \in Nat
  /\ search \in SearchUnderWay /\ packet \in PacketMade /\ pointer \in PointerRead
FedInv == FedTypeOK /\ CutIsTold /\ ReadIsWhatWasFound

\* Every hit of one sequence has its key in the other.
KeysKept(old, new) == \A i \in DOMAIN old : \E k \in DOMAIN new : HitKey(new[k]) = HitKey(old[i])

LEMMA KeysChain ==
  ASSUME NEW a, NEW b, NEW c, KeysKept(a, b), KeysKept(b, c)
  PROVE  KeysKept(a, c)
<1> SUFFICES ASSUME NEW i \in DOMAIN a PROVE \E k \in DOMAIN c : HitKey(c[k]) = HitKey(a[i])
  BY DEF KeysKept
<1>1. PICK j \in DOMAIN b : HitKey(b[j]) = HitKey(a[i])
  BY DEF KeysKept
<1>2. PICK k \in DOMAIN c : HitKey(c[k]) = HitKey(b[j])
  BY DEF KeysKept
<1> QED BY <1>1, <1>2

\* Arranging a finite set in an order loses nobody.
LEMMA ArrangedIs ==
  ASSUME NEW R, NEW S, IsFiniteSet(S), Orders(R, S)
  PROVE  /\ Cardinality(S) \in Nat
         /\ Arranged(S, R) \in [1 .. Cardinality(S) -> S]
         /\ \A x \in S : \E n \in 1 .. Cardinality(S) : Arranged(S, R)[n] = x
<1>1. Arranged(S, R) = Sorting(S, R)
  BY DEF Arranged, Sorting, Preceding
<1>2. Cardinality(S) \in Nat /\ Lists(Sorting(S, R), S, R)
  BY SortingLists
<1>3. \A x \in S : \E n \in 1 .. Cardinality(S) : Sorting(S, R)[n] = x
  BY <1>2, ListingIsWhole
<1> QED BY <1>1, <1>2, <1>3 DEF Lists

\* The hits at some places, in an order of them, are those hits.
Collects(new, hits, S) ==
  /\ new \in Seq(FedHit) /\ IsFiniteSet(S) /\ Len(new) = Cardinality(S)
  /\ \A i \in S : \E n \in DOMAIN new : new[n] = hits[i]

LEMMA HitsAtAre ==
  ASSUME NEW hits \in Seq(FedHit), NEW S \in SUBSET (DOMAIN hits), NEW R, Orders(R, S)
  PROVE  Collects(HitsAt(hits, S, R), hits, S)
<1>1. IsFiniteSet(S)
  <2>1. DOMAIN hits = 1 .. Len(hits) /\ Len(hits) \in Nat
    OBVIOUS
  <2>2. IsFiniteSet(1 .. Len(hits))
    BY <2>1, FS_Interval
  <2> QED BY <2>1, <2>2, FS_Subset
<1>2. PICK places : places = Arranged(S, R)
  OBVIOUS
<1>3. PICK N : N = Cardinality(S)
  OBVIOUS
<1>4. N \in Nat /\ places \in [1 .. N -> S] /\ \A x \in S : \E n \in 1 .. N : places[n] = x
  BY <1>1, <1>2, <1>3, ArrangedIs
<1>5. HitsAt(hits, S, R) = [n \in 1 .. N |-> hits[places[n]]]
  BY <1>2, <1>4 DEF HitsAt
<1>6. ASSUME NEW n \in 1 .. N PROVE hits[places[n]] \in FedHit
  BY <1>4
<1>7. HitsAt(hits, S, R) \in Seq(FedHit) /\ Len(HitsAt(hits, S, R)) = N /\ DOMAIN HitsAt(hits, S, R) = 1 .. N
  BY <1>4, <1>5, <1>6
<1>8. ASSUME NEW i \in S PROVE \E n \in 1 .. N : HitsAt(hits, S, R)[n] = hits[i]
  BY <1>4, <1>5
<1> QED BY <1>1, <1>3, <1>7, <1>8 DEF Collects

LEMMA UpwardsOrders == ASSUME NEW S \in SUBSET Nat PROVE Orders(Upwards(S), S)
  BY DEF Orders, Upwards

LEMMA SourceOrdered == ASSUME NEW s PROVE SourceOrder(s) \in Nat
  BY DEF SourceOrder

LEMMA SectionOrdered == ASSUME NEW h \in FedHit PROVE Section(h) \in Nat
  BY DEF Section, FedHit, Source

LEMMA BySourceOrders == ASSUME NEW hits \in Seq(FedHit) PROVE Orders(BySource(hits), DOMAIN hits)
<1> DEFINE order(i) == SourceOrder(hits[i].source)
           score(i) == hits[i].score
           R == BySource(hits)
<1>1. \A i \in DOMAIN hits : i \in Nat /\ order(i) \in Nat /\ score(i) \in Nat
  <2> SUFFICES ASSUME NEW i \in DOMAIN hits PROVE i \in Nat /\ order(i) \in Nat /\ score(i) \in Nat
    OBVIOUS
  <2>1. i \in Nat /\ hits[i] \in FedHit
    OBVIOUS
  <2>2. hits[i].score \in Nat
    BY <2>1 DEF FedHit
  <2> QED BY <2>1, <2>2, SourceOrdered
<1>2. \A i, j \in DOMAIN hits :
        <<i, j>> \in R <=> \/ order(i) < order(j)
                           \/ order(i) = order(j) /\ (score(i) > score(j) \/ (score(i) = score(j) /\ i < j))
  BY DEF BySource
<1> HIDE DEF order, score, R
<1>3. ASSUME NEW i \in DOMAIN hits, NEW j \in DOMAIN hits, i # j PROVE <<i, j>> \in R \/ <<j, i>> \in R
  <2>1. /\ i \in Nat /\ order(i) \in Nat /\ score(i) \in Nat
        /\ j \in Nat /\ order(j) \in Nat /\ score(j) \in Nat
    BY <1>1
  <2>2. CASE order(i) # order(j)
    BY <1>2, <2>1, <2>2
  <2>3. CASE order(i) = order(j) /\ score(i) # score(j)
    BY <1>2, <2>1, <2>3
  <2>4. CASE order(i) = order(j) /\ score(i) = score(j)
    BY <1>2, <1>3, <2>1, <2>4
  <2> QED BY <2>2, <2>3, <2>4
<1>4. \A i, j, k \in DOMAIN hits : <<i, j>> \in R /\ <<j, k>> \in R => <<i, k>> \in R
  BY <1>1, <1>2
<1>5. \A i \in DOMAIN hits : <<i, i>> \notin R
  BY <1>1, <1>2
<1> QED BY <1>3, <1>4, <1>5 DEF Orders, R

LEMMA BySectionOrders == ASSUME NEW hits \in Seq(FedHit) PROVE Orders(BySection(hits), DOMAIN hits)
<1> DEFINE section(i) == Section(hits[i])
           R == BySection(hits)
<1>1. \A i \in DOMAIN hits : i \in Nat /\ section(i) \in Nat
  BY SectionOrdered
<1>2. \A i, j \in DOMAIN hits :
        <<i, j>> \in R <=> section(i) < section(j) \/ (section(i) = section(j) /\ i < j)
  BY DEF BySection
<1> HIDE DEF section, R
<1>3. \A i, j \in DOMAIN hits : i # j => <<i, j>> \in R \/ <<j, i>> \in R
  BY <1>1, <1>2
<1>4. \A i, j, k \in DOMAIN hits : <<i, j>> \in R /\ <<j, k>> \in R => <<i, k>> \in R
  BY <1>1, <1>2
<1>5. \A i \in DOMAIN hits : <<i, i>> \notin R
  BY <1>1, <1>2
<1> QED BY <1>3, <1>4, <1>5 DEF Orders, R

LEMMA BetterOrders ==
  ASSUME NEW E \in SUBSET StoreEntry, OneIdEach(E)
  PROVE  Orders(Better(E), E)
<1> DEFINE R == Better(E)
<1>1. \A a \in E : a.id \in Nat /\ a.score \in Nat
  BY DEF StoreEntry
<1>2. \A a, b \in E : <<a, b>> \in R <=> a.score > b.score \/ (a.score = b.score /\ a.id < b.id)
  BY DEF Better
<1> HIDE DEF R
<1>3. \A a, b \in E : a # b => <<a, b>> \in R \/ <<b, a>> \in R
  BY <1>1, <1>2 DEF OneIdEach
<1>4. \A a, b, c \in E : <<a, b>> \in R /\ <<b, c>> \in R => <<a, c>> \in R
  BY <1>1, <1>2
<1>5. \A a \in E : <<a, a>> \notin R
  BY <1>1, <1>2
<1> QED BY <1>3, <1>4, <1>5 DEF Orders, R

\* What deduplication and the sorts do to the hits of a search.
LEMMA DedupeKeeps ==
  ASSUME NEW hits \in Seq(FedHit)
  PROVE  DedupeHits(hits) \in Seq(FedHit) /\ KeysKept(hits, DedupeHits(hits))
<1> DEFINE kept == FirstOfKey(hits)
<1>1. kept \in SUBSET (DOMAIN hits) /\ kept \in SUBSET Nat
  BY DEF FirstOfKey
<1>2. Orders(Upwards(kept), kept)
  BY <1>1, UpwardsOrders
<1>3. /\ DedupeHits(hits) \in Seq(FedHit)
      /\ \A i \in kept : \E n \in DOMAIN DedupeHits(hits) : DedupeHits(hits)[n] = hits[i]
  <2> HIDE DEF kept
  <2>1. DedupeHits(hits) = HitsAt(hits, kept, Upwards(kept))
    BY DEF DedupeHits, kept
  <2>2. Collects(DedupeHits(hits), hits, kept)
    BY <1>1, <1>2, <2>1, HitsAtAre
  <2> QED BY <2>2 DEF Collects
<1>4. ASSUME NEW i \in DOMAIN hits PROVE \E k \in kept : HitKey(hits[k]) = HitKey(hits[i])
  <2> DEFINE same == {j \in DOMAIN hits : HitKey(hits[j]) = HitKey(hits[i])}
  <2>1. same \subseteq Nat /\ same # {}
    OBVIOUS
  <2>2. PICK k \in same : \A j \in same : k <= j
    <3> HIDE DEF same
    <3> QED BY <2>1, LeastNat
  <2>3. ASSUME NEW j \in 1 .. k - 1, HitKey(hits[j]) = HitKey(hits[k]) PROVE FALSE
    <3>1. j \in DOMAIN hits /\ k \in Nat /\ j \in Nat /\ j < k
      BY <2>2
    <3>2. j \in same
      BY <2>2, <2>3, <3>1
    <3> QED BY <2>2, <3>1, <3>2
  <2> QED BY <2>2, <2>3 DEF FirstOfKey
<1> QED BY <1>3, <1>4 DEF KeysKept

LEMMA SortsKeep ==
  ASSUME NEW hits \in Seq(FedHit)
  PROVE  /\ OrderHits(hits) \in Seq(FedHit) /\ KeysKept(hits, OrderHits(hits))
         /\ SectionOrder(hits) \in Seq(FedHit) /\ KeysKept(hits, SectionOrder(hits))
<1>1. DOMAIN hits \in SUBSET (DOMAIN hits)
  OBVIOUS
<1>2. ASSUME NEW R, Orders(R, DOMAIN hits)
      PROVE  HitsAt(hits, DOMAIN hits, R) \in Seq(FedHit) /\ KeysKept(hits, HitsAt(hits, DOMAIN hits, R))
  <2>1. PICK new : new = HitsAt(hits, DOMAIN hits, R)
    OBVIOUS
  <2>2. Collects(new, hits, DOMAIN hits)
    BY <1>1, <1>2, <2>1, HitsAtAre
  <2> QED BY <2>1, <2>2 DEF KeysKept, Collects
<1> QED BY <1>2, BySourceOrders, BySectionOrders DEF OrderHits, SectionOrder

LEMMA SelectTyped ==
  ASSUME NEW hits \in Seq(FedHit)
  PROVE  SelectDiverse(hits) \in Seq(FedHit) /\ (Len(hits) <= MaxHits => SelectDiverse(hits) = hits)
<1>1. CASE Len(hits) <= MaxHits
  BY <1>1 DEF SelectDiverse
<1>2. CASE ~(Len(hits) <= MaxHits)
  <2>1. PICK leads \in SUBSET (DOMAIN hits) :
          leads = {i \in DOMAIN hits : \A j \in 1 .. i - 1 : hits[j].source # hits[i].source}
    OBVIOUS
  <2>2. PICK rest \in SUBSET (DOMAIN hits) : rest = DOMAIN hits \ leads
    OBVIOUS
  <2>3. DOMAIN hits \in SUBSET Nat /\ DOMAIN hits = 1 .. Len(hits) /\ Len(hits) \in Nat
    OBVIOUS
  <2>4. Orders(Upwards(leads), leads) /\ Orders(Upwards(rest), rest)
    BY <2>3, UpwardsOrders
  <2>5. PICK a \in Seq(FedHit) : a = HitsAt(hits, leads, Upwards(leads)) /\ Len(a) = Cardinality(leads) /\ IsFiniteSet(leads)
    BY <2>4, HitsAtAre DEF Collects
  <2>6. PICK b \in Seq(FedHit) : b = HitsAt(hits, rest, Upwards(rest)) /\ Len(b) = Cardinality(rest) /\ IsFiniteSet(rest)
    BY <2>4, HitsAtAre DEF Collects
  <2>7. Len(a) + Len(b) = Len(hits)
    <3>1. leads \cap rest = {} /\ leads \cup rest = 1 .. Len(hits)
      BY <2>2, <2>3
    <3>2. Cardinality(leads \cup rest) = Cardinality(leads) + Cardinality(rest)
      <4>1. Cardinality(leads \cap rest) = 0
        BY <3>1, FS_EmptySet
      <4>2. Cardinality(leads) \in Nat /\ Cardinality(rest) \in Nat
        BY <2>5, <2>6, FS_CardinalityType
      <4>3. Cardinality(leads \cup rest) = Cardinality(leads) + Cardinality(rest) - Cardinality(leads \cap rest)
        BY <2>5, <2>6, FS_Union
      <4> QED BY <4>1, <4>2, <4>3
    <3>3. Cardinality(1 .. Len(hits)) = Len(hits)
      <4>1. PICK N \in Nat : N = Len(hits)
        BY <2>3
      <4>2. Cardinality(1 .. N) = N
        BY FS_Interval
      <4> QED BY <4>1, <4>2
    <3> QED BY <2>5, <2>6, <3>1, <3>2, <3>3
  <2>8. SelectDiverse(hits) = SubSeq(a \o b, 1, MaxHits)
    BY <1>2, <2>1, <2>2, <2>5, <2>6 DEF SelectDiverse
  <2>9. a \o b \in Seq(FedHit) /\ Len(a \o b) = Len(hits)
    BY <2>7
  <2>10. MaxHits \in 0 .. Len(a \o b)
    BY <1>2, <2>3, <2>9, FederatorAssumption DEF FederatorAssumption
  <2>11. SubSeq(a \o b, 1, MaxHits) \in Seq(FedHit)
    BY <2>9, <2>10
  <2> QED BY <1>2, <2>8, <2>11
<1> QED BY <1>1, <1>2

\* Cutting nothing keeps everything; cutting leaves hits.
LEMMA CutTyped ==
  ASSUME NEW hits \in Seq(FedHit), NEW n \in Nat, n <= Len(hits)
  PROVE  SubSeq(hits, 1, n) \in Seq(FedHit) /\ (n = Len(hits) => KeysKept(hits, SubSeq(hits, 1, n)))
<1>1. SubSeq(hits, 1, n) \in Seq(FedHit)
  OBVIOUS
<1>2. ASSUME n = Len(hits), NEW i \in DOMAIN hits
      PROVE  i \in DOMAIN SubSeq(hits, 1, n) /\ SubSeq(hits, 1, n)[i] = hits[i]
  BY <1>2
<1> QED BY <1>1, <1>2 DEF KeysKept

\* What a provider returns are hits.
LEMMA ResultTyped ==
  ASSUME StoresOK, edition \in Nat, NEW s \in Source, NEW E \in SUBSET stock[s], NEW told \in BOOLEAN
  PROVE  Result(s, E, told) \in [hits : Seq(FedHit), cut : BOOLEAN]
<1>1. E \in SUBSET StoreEntry /\ OneIdEach(E) /\ IsFiniteSet(E)
  <2>1. stock[s] \in SUBSET StoreEntry /\ IsFiniteSet(stock[s]) /\ OneIdEach(stock[s] \cup Entry)
    BY DEF StoresOK
  <2>2. IsFiniteSet(E)
    BY <2>1, FS_Subset
  <2>3. OneIdEach(E)
    BY <2>1 DEF OneIdEach
  <2> QED BY <2>1, <2>2, <2>3
<1>2. PICK best : best = Best(E)
  OBVIOUS
<1>3. PICK N \in Nat : best \in [1 .. N -> E]
  <2>1. Orders(Better(E), E)
    BY <1>1, BetterOrders
  <2>2. Cardinality(E) \in Nat /\ Arranged(E, Better(E)) \in [1 .. Cardinality(E) -> E]
    BY <1>1, <2>1, ArrangedIs
  <2> QED BY <1>2, <2>2 DEF Best
<1>4. PICK k \in Nat : k <= N /\ DOMAIN Upto(best, ProviderLimit) = 1 .. k
  <2>1. best \in Seq(E) /\ Len(best) = N
    BY <1>3
  <2>2. PICK k \in Nat : k <= N /\ k = IF Len(best) < ProviderLimit THEN Len(best) ELSE ProviderLimit
    BY <2>1, FederatorAssumption DEF FederatorAssumption
  <2>3. DOMAIN SubSeq(best, 1, k) = 1 .. k
    BY <2>1, <2>2
  <2> QED BY <2>2, <2>3 DEF Upto
<1>5. ASSUME NEW i \in 1 .. k PROVE Hit(s, best[i]) \in FedHit
  <2>1. best[i] \in StoreEntry
    BY <1>1, <1>3, <1>4
  <2>2. best[i].id \in Nat /\ best[i].work \in Nat /\ best[i].score \in Nat
    BY <2>1 DEF StoreEntry
  <2> QED BY <2>2 DEF Hit, FedHit
<1>6. [i \in 1 .. k |-> Hit(s, best[i])] \in Seq(FedHit)
  BY <1>5
<1>7. Result(s, E, told) = [hits |-> [i \in 1 .. k |-> Hit(s, best[i])], cut |-> told /\ Cardinality(E) > ProviderLimit]
  BY <1>2, <1>4 DEF Result
<1> QED BY <1>6, <1>7

LEMMA ResultsTyped ==
  ASSUME StoresOK, edition \in Nat, NEW s \in Source, NEW focus \in BOOLEAN
  PROVE  ResultOf(s, focus) \in [hits : Seq(FedHit), cut : BOOLEAN]
<1> DEFINE OfRow(x) == {e \in stock[x] : focus => e.work = 1}
<1>1. \E E \in SUBSET stock[s], told \in BOOLEAN : ResultOf(s, focus) = Result(s, E, told)
  <2>1. CASE s = "board"
    BY <2>1 DEF ResultOf, BoardSearch
  <2>2. CASE s = "facts"
    BY <2>2 DEF ResultOf, FactsSearch
  <2>3. CASE s = "kfts"
    BY <2>3 DEF ResultOf, KftsSearch
  <2>4. CASE s = "artifact_manifest"
    <3>1. ResultOf(s, focus) = Result(s, OfRow(s), TRUE) /\ OfRow(s) \in SUBSET stock[s]
      BY <2>4 DEF ResultOf, ArtifactSearch
    <3> QED BY <3>1
  <2>5. CASE s = "accepted_memory"
    BY <2>5 DEF ResultOf, AcceptedSearch
  <2>6. CASE s = "memory_proposals"
    <3>1. ResultOf(s, focus) = Result(s, OfRow(s), FALSE) /\ OfRow(s) \in SUBSET stock[s]
      BY <2>6 DEF ResultOf, ProposalSearch
    <3> QED BY <3>1
  <2>7. CASE s = "board_history"
    BY <2>7 DEF ResultOf, HistorySearch
  <2> QED BY <2>1, <2>2, <2>3, <2>4, <2>5, <2>6, <2>7 DEF Source
<1> QED BY <1>1, ResultTyped

LEMMA FedStart == FederatorInit => FedInv
<1> SUFFICES ASSUME FederatorInit PROVE FedInv
  OBVIOUS
<1>1. StoresOK
  BY FederatorAssumption DEF FederatorInit, StoresOK, FederatorAssumption, OneIdEach
<1>2. search \in SearchUnderWay /\ packet \in PacketMade /\ pointer \in PointerRead
  BY DEF FederatorInit, SearchUnderWay, PacketMade, PointerRead, NoSearch, NoPacket, Unread
<1>3. CutIsTold /\ ReadIsWhatWasFound
  BY DEF FederatorInit, CutIsTold, ReadIsWhatWasFound, NoPacket, Unread
<1> QED BY <1>1, <1>2, <1>3 DEF FedInv, FedTypeOK, FederatorInit

LEMMA StoreKeepsFed == ASSUME FedInv, NEW s \in DOMAIN stock, NEW e \in Entry, StoreMoves(s, e) PROVE FedInv'
<1>1. StoresOK /\ moves \in Nat /\ s \in Source /\ e \in StoreEntry
  BY FederatorAssumption DEF FedInv, FedTypeOK, StoresOK, FederatorAssumption
<1>2. PICK new : new = (IF e \in stock[s] THEN stock[s] \ {e} ELSE stock[s] \cup {e})
  OBVIOUS
<1>3. new \in SUBSET StoreEntry /\ IsFiniteSet(new) /\ OneIdEach(new \cup Entry)
  <2>1. stock[s] \in SUBSET StoreEntry /\ IsFiniteSet(stock[s]) /\ OneIdEach(stock[s] \cup Entry)
    BY <1>1 DEF StoresOK
  <2>2. IsFiniteSet(stock[s] \ {e}) /\ IsFiniteSet(stock[s] \cup {e})
    BY <2>1, FS_AddElement, FS_Subset
  <2>3. new \cup Entry \subseteq stock[s] \cup Entry
    BY <1>2
  <2>4. OneIdEach(new \cup Entry)
    BY <2>1, <2>3 DEF OneIdEach
  <2> QED BY <1>1, <1>2, <2>1, <2>2, <2>4
<1>4. stock' = [stock EXCEPT ![s] = new]
  BY <1>2 DEF StoreMoves
<1>5. StoresOK'
  BY <1>1, <1>3, <1>4 DEF StoresOK
<1>6. moves' \in Nat
  BY <1>1 DEF StoreMoves
<1>7. UNCHANGED <<edition, search, packet, pointer>>
  BY DEF StoreMoves
<1> QED BY <1>5, <1>6, <1>7 DEF FedInv, FedTypeOK, CutIsTold, ReadIsWhatWasFound

LEMMA SearchKeepsFed ==
  ASSUME FedInv, NEW b \in BOOLEAN, BeginsSearch(b) \/ Asks(b)
  PROVE  FedInv'
<1> USE DEF FedInv, FedTypeOK
<1>1. CASE BeginsSearch(b)
  <2>1. search' \in SearchUnderWay
    <3>1. search' = [on |-> TRUE, next |-> 1, focus |-> b, hits |-> << >>, cut |-> FALSE, failed |-> {}]
      BY <1>1 DEF BeginsSearch, NoSearch
    <3>2. << >> \in Seq(FedHit) /\ {} \in SUBSET Source /\ 1 \in Nat \ {0}
      OBVIOUS
    <3> QED BY <3>1, <3>2 DEF SearchUnderWay
  <2>2. packet' \in PacketMade /\ pointer' \in PointerRead /\ CutIsTold' /\ ReadIsWhatWasFound'
    BY <1>1 DEF BeginsSearch, PacketMade, PointerRead, NoPacket, Unread, CutIsTold, ReadIsWhatWasFound
  <2> QED BY <1>1, <2>1, <2>2 DEF BeginsSearch, StoresOK
<1>2. CASE Asks(b)
  <2>1. search \in SearchUnderWay /\ search.next \in Nat \ {0} /\ search.hits \in Seq(FedHit)
    BY DEF SearchUnderWay
  <2>2. PICK s : s = Provider[search.next]
    OBVIOUS
  <2>3. s \in Source
    <3>1. Provider \in Seq(Source)
      BY FederatorAssumption DEF FederatorAssumption
    <3>2. search.next <= Len(Provider)
      BY <1>2 DEF Asks
    <3>3. Len(Provider) \in Nat /\ search.next \in 1 .. Len(Provider)
      BY <2>1, <3>1, <3>2
    <3> QED BY <2>2, <3>1, <3>3
  <2>4. search.focus \in BOOLEAN /\ search.cut \in BOOLEAN /\ search.failed \in SUBSET Source /\ search.on \in BOOLEAN
    BY DEF SearchUnderWay
  <2>5. PICK res \in [hits : Seq(FedHit), cut : BOOLEAN] : res = ResultOf(s, search.focus)
    BY <2>3, <2>4, ResultsTyped
  <2>6. PICK found \in Seq(FedHit) : found = IF b THEN << >> ELSE res.hits
    <3>1. << >> \in Seq(FedHit) /\ res.hits \in Seq(FedHit)
      OBVIOUS
    <3> QED BY <3>1
  <2>7. PICK cut \in BOOLEAN : cut = (search.cut \/ (~b /\ res.cut))
    BY <2>4, <2>5
  <2>8. PICK failed \in SUBSET Source : failed = search.failed \cup IF b THEN {s} ELSE {}
    BY <2>3, <2>4
  <2>9. PICK all \in Seq(FedHit) : all = search.hits \o found
    <3>1. search.hits \o found \in Seq(FedHit)
      BY <2>1
    <3> QED BY <3>1
  <2>10. search' = [search EXCEPT !.next = search.next + 1, !.hits = all, !.cut = cut, !.failed = failed]
    BY <1>2, <2>2, <2>5, <2>6, <2>7, <2>8, <2>9 DEF Asks
  <2>11. search.next + 1 \in Nat \ {0}
    BY <2>1
  <2>12. search' \in SearchUnderWay
    BY <2>10, <2>11 DEF SearchUnderWay
  <2>13. UNCHANGED <<stock, edition, moves, packet, pointer>>
    BY <1>2 DEF Asks
  <2> QED BY <2>12, <2>13 DEF StoresOK, CutIsTold, ReadIsWhatWasFound
<1> QED BY <1>1, <1>2

\* What a packet holds when nothing was cut.
LEMMA PacketKeepsFed ==
  ASSUME FedInv, NEW n \in 0 .. MaxHits, NEW m \in 0 .. MaxHits, PacksPacket(n, m)
  PROVE  FedInv'
<1>1. search \in SearchUnderWay /\ search.hits \in Seq(FedHit) /\ search.cut \in BOOLEAN /\ search.failed \in SUBSET Source
  BY DEF FedInv, FedTypeOK, SearchUnderWay
<1>2. PICK once \in Seq(FedHit) : once = DedupeHits(search.hits) /\ KeysKept(search.hits, once)
  BY <1>1, DedupeKeeps
<1>3. PICK ordered \in Seq(FedHit) : ordered = OrderHits(once) /\ KeysKept(once, ordered)
  BY SortsKeep
<1>4. PICK selected \in Seq(FedHit) :
        selected = SelectDiverse(ordered) /\ (Len(ordered) <= MaxHits => selected = ordered)
  BY SelectTyped
<1>5. n \in Nat /\ m \in Nat /\ MaxHits \in Nat /\ m <= n /\ n <= Len(selected)
  BY <1>2, <1>3, <1>4, FederatorAssumption DEF FederatorAssumption, PacksPacket
<1>6. PICK cut \in Seq(FedHit) : cut = SubSeq(selected, 1, m) /\ (m = Len(selected) => KeysKept(selected, cut))
  <2>1. m <= Len(selected) /\ m \in Nat
    BY <1>5
  <2>2. SubSeq(selected, 1, m) \in Seq(FedHit) /\ (m = Len(selected) => KeysKept(selected, SubSeq(selected, 1, m)))
    BY <2>1, CutTyped
  <2> QED BY <2>2
<1>7. PICK returned \in SUBSET FedHit : returned = {search.hits[i] : i \in DOMAIN search.hits}
  <2>1. \A i \in DOMAIN search.hits : search.hits[i] \in FedHit
    BY <1>1
  <2>2. {search.hits[i] : i \in DOMAIN search.hits} \in SUBSET FedHit
    BY <2>1
  <2> QED BY <2>2
<1>8. PICK sheds \in BOOLEAN, truncated \in BOOLEAN :
        /\ packet' = [made |-> "packet", hits |-> cut, failed |-> search.failed, returned |-> returned,
                      errors |-> IF sheds THEN {} ELSE search.failed, truncated |-> truncated]
        /\ truncated = (CapCuts(ordered) \/ n < Len(selected) \/ m < n \/ sheds)
  <2>1. PICK sheds \in BOOLEAN :
          packet' = [made |-> "packet", hits |-> cut, failed |-> search.failed, returned |-> returned,
                     errors |-> IF sheds THEN {} ELSE search.failed,
                     truncated |-> CapCuts(ordered) \/ n < Len(selected) \/ m < n \/ sheds]
    BY <1>2, <1>3, <1>4, <1>6, <1>7 DEF PacksPacket
  <2> QED BY <2>1
<1>9. packet' \in PacketMade
  <2>1. PICK errors \in SUBSET Source : errors = IF sheds THEN {} ELSE search.failed
    BY <1>1
  <2> QED BY <1>1, <1>8, <2>1 DEF PacketMade
<1>10. CutIsTold'
  <2> SUFFICES ASSUME ~truncated
               PROVE  /\ packet'.failed = packet'.errors
                      /\ \A h \in returned : \E i \in DOMAIN cut : HitKey(cut[i]) = HitKey(h)
    BY <1>8 DEF CutIsTold
  <2>1. ~CapCuts(ordered) /\ ~(n < Len(selected)) /\ ~(m < n) /\ ~sheds
    BY <1>8
  <2>2. Len(ordered) <= MaxHits
    BY <1>5, <2>1 DEF CapCuts
  <2>3. selected = ordered
    BY <1>4, <2>2
  <2>4. m = Len(selected)
    BY <1>5, <2>1
  <2>5. KeysKept(search.hits, ordered)
    BY <1>2, <1>3, KeysChain
  <2>6. KeysKept(search.hits, cut)
    BY <1>6, <2>3, <2>4, <2>5, KeysChain
  <2>7. \A h \in returned : \E i \in DOMAIN cut : HitKey(cut[i]) = HitKey(h)
    BY <1>7, <2>6 DEF KeysKept
  <2> QED BY <1>8, <2>1, <2>7
<1>11. search' \in SearchUnderWay
  BY DEF PacksPacket, SearchUnderWay, NoSearch
<1>12. UNCHANGED <<stock, edition, moves, pointer>>
  BY DEF PacksPacket
<1> QED BY <1>9, <1>10, <1>11, <1>12 DEF FedInv, FedTypeOK, StoresOK, ReadIsWhatWasFound

LEMMA PackKeepsFed ==
  ASSUME FedInv, NEW n \in 0 .. MaxHits, NEW sheds \in BOOLEAN, CompilesPack(n, sheds)
  PROVE  FedInv'
<1>1. packet \in PacketMade /\ packet.hits \in Seq(FedHit) /\ packet.truncated \in BOOLEAN /\ packet.errors \in SUBSET Source
  BY DEF FedInv, FedTypeOK, PacketMade
<1>2. PICK sections \in Seq(FedHit) : sections = SectionOrder(packet.hits) /\ KeysKept(packet.hits, sections)
  BY <1>1, SortsKeep
<1>3. n \in Nat /\ n <= Len(sections)
  BY <1>2, FederatorAssumption DEF FederatorAssumption, CompilesPack
<1>4. PICK cut \in Seq(FedHit) : cut = SubSeq(sections, 1, n) /\ (n = Len(sections) => KeysKept(sections, cut))
  BY <1>3, CutTyped
<1>5. PICK errors \in SUBSET Source : errors = IF sheds THEN {} ELSE packet.errors
  BY <1>1
<1>6. PICK truncated \in BOOLEAN : truncated = (packet.truncated \/ n < Len(sections))
  BY <1>1
<1>7. packet' = [packet EXCEPT !.made = "pack", !.hits = cut, !.errors = errors, !.truncated = truncated]
  BY <1>2, <1>4, <1>5, <1>6 DEF CompilesPack
<1>8. /\ packet' \in PacketMade /\ packet'.made = "pack" /\ packet'.hits = cut
      /\ packet'.returned = packet.returned /\ packet'.truncated = truncated
  BY <1>1, <1>7 DEF PacketMade
<1>9. CutIsTold'
  <2> SUFFICES ASSUME ~truncated, NEW h \in packet.returned
               PROVE  \E i \in DOMAIN cut : HitKey(cut[i]) = HitKey(h)
    BY <1>8 DEF CutIsTold
  <2>1. ~packet.truncated /\ n = Len(sections) /\ packet.made # "none"
    <3>1. ~packet.truncated /\ ~(n < Len(sections))
      BY <1>6
    <3>2. Len(sections) \in Nat
      OBVIOUS
    <3> QED BY <1>3, <3>1, <3>2 DEF CompilesPack
  <2>2. KeysKept(packet.hits, cut)
    BY <1>2, <1>4, <2>1, KeysChain
  <2>3. PICK i \in DOMAIN packet.hits : HitKey(packet.hits[i]) = HitKey(h)
    BY <2>1 DEF FedInv, CutIsTold
  <2> QED BY <2>2, <2>3 DEF KeysKept
<1>10. UNCHANGED <<stock, edition, moves, search, pointer>>
  BY DEF CompilesPack
<1> QED BY <1>8, <1>9, <1>10 DEF FedInv, FedTypeOK, StoresOK, ReadIsWhatWasFound

LEMMA PointerKeepsFed ==
  ASSUME FedInv,
         \/ \E i \in DOMAIN packet.hits : PicksPointer(packet.hits[i])
         \/ PublishesMemory \/ ReadsAccepted \/ \E b \in BOOLEAN : ReadsNote(b)
  PROVE  FedInv'
<1>1. edition \in Nat /\ moves \in Nat /\ pointer \in PointerRead /\ pointer.edition \in Nat /\ packet.hits \in Seq(FedHit)
  BY DEF FedInv, FedTypeOK, PointerRead, PacketMade
<1>2. edition' \in Nat /\ moves' \in Nat /\ pointer' \in PointerRead /\ ReadIsWhatWasFound'
  <2>1. CASE PublishesMemory
    BY <1>1, <2>1 DEF PublishesMemory, FedInv, ReadIsWhatWasFound
  <2>2. CASE \E i \in DOMAIN packet.hits : PicksPointer(packet.hits[i])
    <3>1. PICK h \in FedHit : PicksPointer(h)
      BY <1>1, <2>2
    <3>2. h.source \in Source /\ h.edition \in Nat
      BY DEF FedHit
    <3>3. h.source # "read"
      BY <3>2 DEF Source
    <3> QED BY <1>1, <3>1, <3>2, <3>3 DEF PicksPointer, PointerRead, ReadIsWhatWasFound
  <2>3. CASE ReadsAccepted
    <3>1. CASE NamesCurrent
      <4>1. pointer' = [pointer EXCEPT !.state = "read", !.got = edition] /\ pointer.edition = edition
        BY <2>3, <3>1 DEF ReadsAccepted, NamesCurrent
      <4> QED BY <1>1, <2>3, <4>1 DEF PointerRead, ReadIsWhatWasFound, ReadsAccepted
    <3>2. CASE ~NamesCurrent
      <4>1. pointer' = [pointer EXCEPT !.state = "refused"]
        BY <2>3, <3>2 DEF ReadsAccepted
      <4> QED BY <1>1, <2>3, <4>1 DEF PointerRead, ReadIsWhatWasFound, ReadsAccepted
    <3> QED BY <3>1, <3>2
  <2>4. CASE \E b \in BOOLEAN : ReadsNote(b)
    <3>1. PICK s \in {"note", "missing"} : pointer' = [pointer EXCEPT !.state = s]
      BY <2>4 DEF ReadsNote
    <3> QED BY <1>1, <2>4, <3>1 DEF PointerRead, ReadIsWhatWasFound, ReadsNote
  <2> QED BY <2>1, <2>2, <2>3, <2>4
<1>3. UNCHANGED <<stock, search, packet>>
  BY DEF PublishesMemory, PicksPointer, ReadsAccepted, ReadsNote
<1> QED BY <1>2, <1>3 DEF FedInv, FedTypeOK, StoresOK, CutIsTold

LEMMA FedKept == FedInv /\ [FederatorNext]_fedVars => FedInv'
<1> SUFFICES ASSUME FedInv, [FederatorNext]_fedVars PROVE FedInv'
  OBVIOUS
<1>1. CASE \E s \in DOMAIN stock, e \in Entry : StoreMoves(s, e)
  BY <1>1, StoreKeepsFed
<1>2. CASE \E b \in BOOLEAN : BeginsSearch(b) \/ Asks(b)
  BY <1>2, SearchKeepsFed
<1>3. CASE \E n, m \in 0 .. MaxHits : PacksPacket(n, m)
  BY <1>3, PacketKeepsFed
<1>4. CASE \E n \in 0 .. MaxHits, sheds \in BOOLEAN : CompilesPack(n, sheds)
  BY <1>4, PackKeepsFed
<1>5. CASE \/ \E i \in DOMAIN packet.hits : PicksPointer(packet.hits[i])
           \/ PublishesMemory \/ ReadsAccepted \/ \E b \in BOOLEAN : ReadsNote(b)
  BY <1>5, PointerKeepsFed
<1>6. CASE UNCHANGED fedVars
  BY <1>6 DEF fedVars, FedInv, FedTypeOK, StoresOK, CutIsTold, ReadIsWhatWasFound
<1> QED BY <1>1, <1>2, <1>3, <1>4, <1>5, <1>6 DEF FederatorNext

\* For any providers, stores, limits and interleaving with their writers: a packet
\* or pack that does not say it was cut holds every hit a provider returned, up to
\* rows found twice, and a packet every error; and a pointer is read in the
\* generation it was found in, or refused (search, _bound_packet,
\* _bound_context_pack, read_context_pointer).
THEOREM SearchIsHonestHolds == FederatorSpec => []SearchIsHonest
<1>1. FedInv => SearchIsHonest
  BY DEF FedInv, SearchIsHonest
<1> QED BY <1>1, FedStart, FedKept, PTL DEF FederatorSpec
=============================================================================
