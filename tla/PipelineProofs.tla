---------------------------- MODULE PipelineProofs ----------------------------
(***************************************************************************)
(* Theorems about the pipeline of the tests, for every number of tests and *)
(* edits and whatever the emulator does with a test.                       *)
(***************************************************************************)
EXTENDS TestPipeline, TLAPS

-----------------------------------------------------------------------------
(* Targets and what is made of them. *)

LEMMA TargetFacts ==
  /\ \A g \in Target : g[1] \in Kind /\ g[2] \in Test /\ g = <<g[1], g[2]>>
  /\ \A k \in Kind : \A t \in Test : <<k, t>> \in Target
  /\ \A g \in Target : MadeFrom(g) \subseteq Target
  /\ Test \subseteq Nat
<1>1. \A g \in Target : g[1] \in Kind /\ g[2] \in Test /\ g = <<g[1], g[2]>>
  BY DEF Target
<1>2. \A k \in Kind : \A t \in Test : <<k, t>> \in Target
  BY DEF Target
<1>3. Test \subseteq Nat
  BY PipelineAssumption DEF Test
<1>4. ASSUME NEW g \in Target PROVE MadeFrom(g) \subseteq Target
  BY <1>1, <1>2 DEF MadeFrom, Kind
<1>. QED
  BY <1>1, <1>2, <1>3, <1>4

\* make comes to every target, and to none before what it is made from.
LEMMA OrderFacts ==
  /\ 3 * TESTS \in Nat
  /\ \A n \in 1 .. 3 * TESTS : Order[n] \in Target
  /\ \A n \in 1 .. 3 * TESTS : Order[n][1] = "archobj" =>
       \E m \in 1 .. n - 1 : Order[m] = <<"bin", Order[n][2]>>
  /\ \A n \in 1 .. 3 * TESTS : Order[n][1] = "soln" =>
       \E m \in 1 .. n - 1 : Order[m] = <<"archobj", Order[n][2]>>
  /\ \A t \in Test : \E n \in 1 .. 3 * TESTS : Order[n] = <<"soln", t>>
  /\ Order \in Seq(Target) /\ Len(Order) = 3 * TESTS
<1>0. TESTS \in Nat \ {0}
  BY PipelineAssumption
<1>1. ASSUME NEW n \in 1 .. 3 * TESTS, n <= 2 * TESTS
      PROVE  /\ (n + 1) \div 2 \in Test
             /\ Order[n] = <<IF n % 2 = 1 THEN "bin" ELSE "archobj", (n + 1) \div 2>>
  BY <1>0, <1>1 DEF Order, Test
<1>2. ASSUME NEW n \in 1 .. 3 * TESTS, n > 2 * TESTS
      PROVE  n - 2 * TESTS \in Test /\ Order[n] = <<"soln", n - 2 * TESTS>>
  BY <1>0, <1>2 DEF Order, Test
<1>3. ASSUME NEW n \in 1 .. 3 * TESTS PROVE Order[n] \in Target
  <2>1. CASE n <= 2 * TESTS
    <3>1. (n + 1) \div 2 \in Test
      BY <1>1, <2>1
    <3>2. Order[n] = <<"bin", (n + 1) \div 2>> \/ Order[n] = <<"archobj", (n + 1) \div 2>>
      BY <1>1, <2>1
    <3>. QED
      BY <3>1, <3>2, TargetFacts DEF Kind
  <2>2. CASE n > 2 * TESTS
    BY <1>2, <2>2, TargetFacts DEF Kind
  <2>. QED
    BY <1>0, <2>1, <2>2
<1>4. ASSUME NEW n \in 1 .. 3 * TESTS, Order[n][1] = "archobj"
      PROVE  \E m \in 1 .. n - 1 : Order[m] = <<"bin", Order[n][2]>>
  <2>1. n <= 2 * TESTS /\ n % 2 # 1
    BY <1>0, <1>1, <1>2, <1>4
  <2>2. n - 1 \in 1 .. n - 1 /\ n - 1 \in 1 .. 3 * TESTS /\ n - 1 <= 2 * TESTS
        /\ (n - 1) % 2 = 1 /\ (n - 1 + 1) \div 2 = (n + 1) \div 2
    BY <1>0, <2>1
  <2>3. Order[n - 1] = <<"bin", (n + 1) \div 2>>
    BY <1>1, <2>2
  <2>4. Order[n][2] = (n + 1) \div 2
    BY <1>1, <2>1
  <2>. QED
    BY <2>2, <2>3, <2>4
<1>5. ASSUME NEW t \in Test
      PROVE  /\ 2 * t \in 1 .. 2 * TESTS /\ Order[2 * t] = <<"archobj", t>>
             /\ 2 * TESTS + t \in 1 .. 3 * TESTS /\ Order[2 * TESTS + t] = <<"soln", t>>
  <2>1. t \in 1 .. TESTS
    BY DEF Test
  <2>2. 2 * t \in 1 .. 3 * TESTS /\ 2 * t <= 2 * TESTS /\ (2 * t) % 2 # 1
        /\ (2 * t + 1) \div 2 = t
    BY <1>0, <2>1
  <2>3. 2 * TESTS + t \in 1 .. 3 * TESTS /\ 2 * TESTS + t > 2 * TESTS
        /\ 2 * TESTS + t - 2 * TESTS = t
    BY <1>0, <2>1
  <2>4. Order[2 * t] = <<"archobj", t>>
    BY <1>1, <2>2
  <2>5. Order[2 * TESTS + t] = <<"soln", t>>
    <3>. DEFINE q == 2 * TESTS + t
    <3>1. q \in 1 .. 3 * TESTS /\ q > 2 * TESTS /\ q - 2 * TESTS = t
      BY <1>0, <2>1, <2>3
    <3>. HIDE DEF q
    <3>2. \A n \in 1 .. 3 * TESTS : n > 2 * TESTS => Order[n] = <<"soln", n - 2 * TESTS>>
      BY <1>2
    <3>3. Order[q] = <<"soln", q - 2 * TESTS>>
      BY <3>1, <3>2
    <3>. QED
      BY <3>1, <3>3 DEF q
  <2>. QED
    BY <1>0, <2>1, <2>2, <2>3, <2>4, <2>5
<1>6. ASSUME NEW n \in 1 .. 3 * TESTS, Order[n][1] = "soln"
      PROVE  \E m \in 1 .. n - 1 : Order[m] = <<"archobj", Order[n][2]>>
  <2>1. n > 2 * TESTS
    BY <1>0, <1>1, <1>6
  <2>. DEFINE t == n - 2 * TESTS
  <2>2. t \in Test /\ Order[n][2] = t
    BY <1>2, <2>1
  <2>3. 2 * t \in 1 .. n - 1
    BY <1>0, <1>5, <2>1, <2>2
  <2>. QED
    BY <1>5, <2>2, <2>3
<1>7. Order \in Seq(Target) /\ Len(Order) = 3 * TESTS
  BY <1>0, <1>3 DEF Order
<1>8. 3 * TESTS \in Nat
  BY <1>0
<1>9. \A t \in Test : \E n \in 1 .. 3 * TESTS : Order[n] = <<"soln", t>>
  BY <1>5
<1>. QED
  BY <1>3, <1>4, <1>6, <1>7, <1>8, <1>9

\* The contents of a file.
LEMMA ContentFacts ==
  /\ Absent \in Content /\ Damaged \in Content
  /\ Absent.state = "absent" /\ Damaged.state = "damaged"
  /\ \A v, e \in Version : Whole(v, e) \in Content
  /\ \A v, e : Whole(v, e).state = "whole" /\ Whole(v, e).test = v /\ Whole(v, e).emu = e
  /\ 0 \in Version /\ Version \subseteq Nat
<1>1. 0 \in Version /\ Version \subseteq Nat
  BY PipelineAssumption DEF Version
<1>. QED
  BY <1>1 DEF Absent, Damaged, Whole, Content

-----------------------------------------------------------------------------
(***************************************************************************)
(* The inductive invariant.  The properties compare what is in a file with *)
(* sources that may have changed since, and a file is written in two steps *)
(* with anything in between; so the invariant also says what the recipe    *)
(* that runs is going to write (Reads, part of Rebuilt), that make goes    *)
(* through the targets in an order in which nothing is made before what it *)
(* is made from (Queue, Chain), and what `make clean` has removed by the   *)
(* time something is made (Rebuilt).  That a target is current is split:   *)
(* the binary is (BinaryIsCurrent), and the others are of the same test as *)
(* the binary (ChainAgrees).                                               *)
(***************************************************************************)

\* The type invariant, in three parts.
BuildTypes ==
  /\ source \in [Test -> Version] /\ emulator \in Version
  /\ objects \in Version \cup {NotBuilt} /\ r5emu \in Version \cup {NotBuilt}
  /\ changed \in BOOLEAN

FileTypes ==
  /\ files \in [Target -> Content] /\ outdated \subseteq Target
  /\ raced \subseteq Test /\ kept \subseteq Test
  /\ todo \in Seq(Target) /\ reading \in Content

CommandTypes ==
  /\ command \in {"none", "test", "all", "run_tests", "killed"}
  /\ point \in {"idle", "clean", "clean outputs", "emulator", "link", "targets", "compare"}
  /\ verdict \in [Test -> {"none", "missing", "passed", "failed", "error"}]
  /\ since.source \in [Test -> Version] /\ since.emulator \in Version

LEMMA TypeParts == PipelineTypeOK <=> BuildTypes /\ FileTypes /\ CommandTypes
BY DEF PipelineTypeOK, BuildTypes, FileTypes, CommandTypes

\* The targets that make has come to.
Done == 3 * TESTS - Len(todo)

\* What is left to do is the rest of Order, and all before it is there.
Queue ==
  /\ point # "targets" => todo = <<>>
  /\ Len(todo) \in 0 .. 3 * TESTS
  /\ \A n \in 1 .. Len(todo) : todo[n] = Order[Done + n]
  /\ point = "targets" => \A n \in 1 .. Done : files[Order[n]].state # "absent"

\* A recipe runs for the first target that is left, and has emptied it unless
\* it is a binary.
Running ==
  reading # Absent =>
    /\ point = "targets" /\ todo # <<>>
    /\ Head(todo)[1] # "bin" => files[Head(todo)] = Damaged
    /\ reading.state # "absent"

\* What is missing has not been made from either.
Chain ==
  \A t \in Test :
    /\ files[<<"bin", t>>].state = "absent" => files[<<"archobj", t>>].state = "absent"
    /\ files[<<"archobj", t>>].state = "absent" => files[<<"soln", t>>].state = "absent"

\* There is an emulator to run, and something to link it from.
Binary ==
  /\ point = "link" => objects # NotBuilt
  /\ point = "targets" => r5emu # NotBuilt

\* A binary is current, with the two exceptions.
BinaryIsCurrent ==
  \A t \in Test \ (raced \cup kept) :
    <<"bin", t>> \notin outdated /\ files[<<"bin", t>>].state = "whole" =>
      files[<<"bin", t>>].test = source[t]

\* What a recipe will write is of the test as it is, or of the test that what
\* it is made from is of.
Reads ==
  reading.state = "whole" =>
    LET t == Head(todo)[2]
        agrees(from) == files[<<from, t>>].state = "whole" /\ files[<<from, t>>].test = reading.test
    IN  /\ Head(todo)[1] = "bin" /\ t \notin raced => reading.test = source[t]
        /\ Head(todo)[1] = "archobj" => agrees("bin")
        /\ Head(todo)[1] = "soln" => agrees("archobj")

\* Versions only grow.
Grown ==
  /\ \A t \in Test : source[t] >= since.source[t]
  /\ emulator >= since.emulator

\* A content of g is not older than the command.
NotOlder(g, content) ==
  content.state = "whole" =>
    /\ content.test >= since.source[g[2]]
    /\ g[1] = "soln" => content.emu >= since.emulator

\* `make test` has nothing left of what was there before it, and judges at
\* its end.
Rebuilt ==
  command = "test" =>
    /\ point # "idle" => verdict = [t \in Test |-> "none"]
    /\ point \in {"clean outputs", "emulator"} => objects = NotBuilt
    /\ point \in {"clean outputs", "emulator", "link"} => r5emu = NotBuilt
    /\ point = "link" => objects >= since.emulator
    /\ point = "targets" => r5emu >= since.emulator
    /\ point = "compare" => \A t \in Test : files[<<"soln", t>>].state # "absent"
    /\ point \notin {"clean", "clean outputs"} => \A g \in Target : NotOlder(g, files[g])
    /\ reading # Absent => NotOlder(Head(todo), reading)
    /\ \A t \in Test : verdict[t] = "passed" => files[<<"soln", t>>].state = "whole"

PipelineInv ==
  /\ BuildTypes /\ FileTypes /\ CommandTypes
  /\ Queue
  /\ Running
  /\ Chain
  /\ Binary
  /\ BinaryIsCurrent
  /\ ChainAgrees
  /\ Reads
  /\ Grown
  /\ Rebuilt
  /\ EveryTestIsJudged

\* The target of a recipe is a target, and what it is made from is there.
LEMMA HeadFacts ==
  ASSUME FileTypes, Queue, point = "targets", todo # <<>>
  PROVE  LET g == Head(todo)
         IN  /\ g \in Target /\ g = Order[Done + 1] /\ Done + 1 \in 1 .. 3 * TESTS
             /\ g[1] = "archobj" => files[<<"bin", g[2]>>].state # "absent"
             /\ g[1] = "soln" => files[<<"archobj", g[2]>>].state # "absent"
<1>1. Len(todo) \in 1 .. 3 * TESTS /\ Head(todo) = todo[1]
  BY DEF FileTypes, Queue
<1>. DEFINE k == Done + 1
<1>2. k \in 1 .. 3 * TESTS /\ Head(todo) = Order[k]
  BY <1>1, OrderFacts DEF Queue, Done
<1>3. \A m \in 1 .. k - 1 : files[Order[m]].state # "absent"
  BY <1>1, OrderFacts DEF Queue, Done
<1>. HIDE DEF k
<1>4. Order[k][1] = "archobj" => files[<<"bin", Order[k][2]>>].state # "absent"
  BY <1>2, <1>3, OrderFacts
<1>5. Order[k][1] = "soln" => files[<<"archobj", Order[k][2]>>].state # "absent"
  BY <1>2, <1>3, OrderFacts
<1>6. Order[k] \in Target
  BY <1>2, OrderFacts
<1>. QED
  BY <1>2, <1>4, <1>5, <1>6 DEF k

LEMMA PipelineInitInv == PipelineInit => PipelineInv
<1>. SUFFICES ASSUME PipelineInit PROVE PipelineInv
  OBVIOUS
<1>. USE DEF PipelineInit
<1>1. BuildTypes
  BY ContentFacts DEF BuildTypes
<1>8. FileTypes
  BY ContentFacts DEF FileTypes
<1>0. CommandTypes
  BY ContentFacts DEF CommandTypes
<1>2. Queue
  BY OrderFacts DEF Queue
<1>3. \A g \in Target : files[g].state = "absent"
  BY ContentFacts
<1>4. \A k \in Kind : \A t \in Test : files[<<k, t>>].state = "absent"
  BY <1>3, TargetFacts
<1>5. Chain /\ BinaryIsCurrent /\ ChainAgrees
  BY <1>4 DEF Chain, BinaryIsCurrent, ChainAgrees, Kind
<1>6. Running /\ Reads /\ Binary
  BY ContentFacts DEF Running, Reads, Binary
<1>7. Grown
  BY PipelineAssumption DEF Grown
<1>. QED
  BY <1>0, <1>1, <1>2, <1>5, <1>6, <1>7, <1>8 DEF PipelineInv, Rebuilt, EveryTestIsJudged

-----------------------------------------------------------------------------
(* Steps that write no target. *)

\* What holds of the contents is not disturbed by what is not about them.
LEMMA ContentsStay ==
  ASSUME PipelineInv, UNCHANGED <<source, files, outdated, raced, kept, reading>>,
         reading # Absent => todo' = todo /\ point' = point
  PROVE  Chain' /\ BinaryIsCurrent' /\ ChainAgrees' /\ Reads' /\ Running'
<1>. USE DEF PipelineInv
<1>1. Chain' /\ BinaryIsCurrent' /\ ChainAgrees'
  BY DEF Chain, BinaryIsCurrent, ChainAgrees
<1>2. reading.state = "whole" => reading # Absent
  BY ContentFacts
<1>. QED
  BY <1>1, <1>2 DEF Reads, Running

\* When no recipe runs, none does at a step to another point.
LEMMA NothingRuns ==
  ASSUME PipelineInv, point # "targets"
  PROVE  reading = Absent /\ todo = <<>> /\ Len(todo) = 0
BY DEF PipelineInv, Running, Queue

LEMMA NothingQueued ==
  ASSUME todo' = <<>>, point' # "targets"
  PROVE  Queue'
<1>1. Len(todo') = 0
  OBVIOUS
<1>. QED
  BY <1>1, OrderFacts DEF Queue

LEMMA EditTestInv ==
  ASSUME PipelineInv, NEW t \in Test, EditTest(t)
  PROVE  PipelineInv'
<1>. USE DEF PipelineInv, EditTest, sources, binaries
<1>1. source' \in [Test -> Version] /\ \A u \in Test : u # t => source'[u] = source[u]
  BY ContentFacts, PipelineAssumption DEF BuildTypes, Version
<1>2. source'[t] = source[t] + 1 /\ source[t] \in Nat
  BY ContentFacts DEF BuildTypes
<1>3. <<"bin", t>> \in outdated' /\ outdated \subseteq outdated' /\ outdated' \subseteq Target
  BY TargetFacts DEF FileTypes, Kind
<1>4. BuildTypes' /\ FileTypes' /\ CommandTypes'
  BY <1>1, <1>3 DEF BuildTypes, FileTypes, CommandTypes
<1>5. BinaryIsCurrent'
  <2>. SUFFICES ASSUME NEW u \in Test \ (raced \cup kept)', <<"bin", u>> \notin outdated',
                       files[<<"bin", u>>].state = "whole"
                PROVE  files[<<"bin", u>>].test = source'[u]
    BY DEF BinaryIsCurrent
  <2>1. u # t /\ u \notin raced /\ u \notin kept /\ source'[u] = source[u]
    BY <1>1, <1>3
  <2>. QED
    BY <2>1 DEF BinaryIsCurrent
<1>6. ChainAgrees'
  <2>1. \A u \in Test : \A k \in {"archobj", "soln"} : <<k, u>> \in outdated' <=> <<k, u>> \in outdated
    OBVIOUS
  <2>. QED
    BY <2>1 DEF ChainAgrees
<1>7. Reads'
  <2>. SUFFICES ASSUME reading.state = "whole" PROVE Reads'
    BY DEF Reads
  <2>1. reading # Absent
    BY ContentFacts
  <2>2. Head(todo) \in Target
    BY <2>1, HeadFacts DEF Running
  <2>3. Head(todo)[1] = "bin" /\ Head(todo)[2] \notin raced' =>
          Head(todo)[2] # t /\ Head(todo)[2] \notin raced
    BY <2>1, <2>2, TargetFacts DEF Compiling
  <2>4. Head(todo)[1] = "bin" /\ Head(todo)[2] \notin raced' =>
          reading.test = source'[Head(todo)[2]]
    BY <1>1, <2>2, <2>3, TargetFacts DEF Reads
  <2>. QED
    BY <2>4 DEF Reads
<1>8. Grown'
  <2>1. \A u \in Test : since.source[u] \in Nat
    BY ContentFacts DEF CommandTypes
  <2>. QED
    BY <1>1, <1>2, <2>1 DEF Grown
<1>9. Queue' /\ Running' /\ Chain' /\ Binary' /\ Rebuilt' /\ EveryTestIsJudged'
  BY DEF Queue, Done, Running, Chain, Binary, Rebuilt, NotOlder, EveryTestIsJudged
<1>. QED
  BY <1>4, <1>5, <1>6, <1>7, <1>8, <1>9

LEMMA EditEmulatorInv ==
  ASSUME PipelineInv, EditEmulator
  PROVE  PipelineInv'
<1>. USE DEF PipelineInv, EditEmulator, sources, binaries
<1>1. emulator' \in Version /\ emulator' >= emulator
  BY PipelineAssumption DEF BuildTypes, Version
<1>2. BuildTypes' /\ FileTypes' /\ CommandTypes'
  BY <1>1 DEF BuildTypes, FileTypes, CommandTypes
<1>3. Chain' /\ BinaryIsCurrent' /\ ChainAgrees' /\ Reads' /\ Running'
  BY ContentsStay
<1>4. Grown'
  <2>1. since.emulator \in Nat /\ emulator \in Nat
    BY ContentFacts DEF CommandTypes, BuildTypes
  <2>. QED
    BY <1>1, <2>1, ContentFacts DEF Grown
<1>5. Queue' /\ Binary' /\ Rebuilt' /\ EveryTestIsJudged'
  BY DEF Queue, Done, Binary, Rebuilt, NotOlder, EveryTestIsJudged
<1>. QED
  BY <1>2, <1>3, <1>4, <1>5

LEMMA CommandInv ==
  ASSUME PipelineInv, Command
  PROVE  PipelineInv'
<1>. USE DEF PipelineInv, sources, binaries
<1>1. PICK c, p : <<c, p>> \in {<<"test", "clean">>, <<"all", "emulator">>, <<"run_tests", "compare">>}
                  /\ Begin(c, p)
  BY DEF Command
<1>2. /\ point = "idle" /\ command' = c /\ point' = p
      /\ since' = [source |-> source, emulator |-> emulator]
      /\ verdict' = [u \in Test |-> "none"]
      /\ UNCHANGED <<sources, binaries, files, outdated, todo, reading, raced, kept>>
  BY <1>1 DEF Begin
<1>3. reading = Absent /\ todo = <<>> /\ Len(todo) = 0
  BY <1>2, NothingRuns
<1>4. c \in {"test", "all", "run_tests"} /\ p \in {"clean", "emulator", "compare"}
      /\ (c = "test" => p = "clean")
  BY <1>1
<1>5. BuildTypes' /\ FileTypes'
  BY <1>2 DEF BuildTypes, FileTypes
<1>6. CommandTypes'
  BY <1>2, <1>4 DEF BuildTypes, CommandTypes
<1>7. Chain' /\ BinaryIsCurrent' /\ ChainAgrees' /\ Reads' /\ Running'
  BY <1>2, <1>3, ContentsStay
<1>8. Grown'
  BY <1>2, ContentFacts DEF Grown, BuildTypes
<1>9. Queue' /\ Binary' /\ EveryTestIsJudged'
  BY <1>2, <1>3, <1>4, OrderFacts DEF Queue, Binary, EveryTestIsJudged
<1>10. Rebuilt'
  BY <1>2, <1>3, <1>4 DEF Rebuilt
<1>. QED
  BY <1>5, <1>6, <1>7, <1>8, <1>9, <1>10

LEMMA CleanEmulatorInv ==
  ASSUME PipelineInv, CleanEmulator
  PROVE  PipelineInv'
<1>. USE DEF PipelineInv, CleanEmulator, sources, binaries
<1>1. reading = Absent /\ todo = <<>> /\ Len(todo) = 0
  BY NothingRuns
<1>2. BuildTypes' /\ FileTypes' /\ CommandTypes'
  BY DEF BuildTypes, FileTypes, CommandTypes
<1>3. Chain' /\ BinaryIsCurrent' /\ ChainAgrees' /\ Reads' /\ Running'
  BY <1>1, ContentsStay
<1>4. Queue' /\ Binary' /\ Grown' /\ EveryTestIsJudged'
  BY <1>1, NothingQueued DEF Binary, Grown, EveryTestIsJudged
<1>5. Rebuilt'
  BY <1>1 DEF Rebuilt
<1>. QED
  BY <1>2, <1>3, <1>4, <1>5

\* A file that is not there is not older than anything.
LEMMA AbsentFacts ==
  ASSUME NEW g
  PROVE  Absent.state # "whole" /\ NotOlder(g, Absent) /\ NotOlder(g, Damaged)
BY ContentFacts DEF NotOlder

LEMMA CleanOutputsInv ==
  ASSUME PipelineInv, CleanOutputs
  PROVE  PipelineInv'
<1>. USE DEF PipelineInv, CleanOutputs, sources, binaries
<1>1. reading = Absent /\ todo = <<>> /\ Len(todo) = 0
  BY NothingRuns
<1>2. \A g \in Target : files'[g] = Absent
  OBVIOUS
<1>3. \A k \in Kind : \A t \in Test : files'[<<k, t>>] = Absent
  BY <1>2, TargetFacts
<1>4. BuildTypes' /\ FileTypes' /\ CommandTypes'
  <2>1. files' \in [Target -> Content]
    BY ContentFacts
  <2>. QED
    BY <2>1 DEF BuildTypes, FileTypes, CommandTypes
<1>5. Chain' /\ BinaryIsCurrent' /\ ChainAgrees'
  BY <1>3, ContentFacts DEF Chain, BinaryIsCurrent, ChainAgrees, Kind
<1>6. Reads' /\ Running'
  BY <1>1, ContentFacts DEF Reads, Running
<1>7. Queue' /\ Binary' /\ Grown' /\ EveryTestIsJudged'
  BY <1>1, NothingQueued DEF Binary, Grown, EveryTestIsJudged
<1>8. \A g \in Target : NotOlder(g, files[g])'
  BY <1>2, ContentFacts DEF NotOlder
<1>9. Rebuilt'
  <2>. SUFFICES ASSUME command = "test" PROVE Rebuilt'
    BY DEF Rebuilt
  <2>1. verdict = [u \in Test |-> "none"]
    BY DEF Rebuilt
  <2>. QED
    BY <1>1, <1>8, <2>1 DEF Rebuilt
<1>. QED
  BY <1>4, <1>5, <1>6, <1>7, <1>9

LEMMA CompileEmulatorInv ==
  ASSUME PipelineInv, CompileEmulator
  PROVE  PipelineInv'
<1>. USE DEF PipelineInv, CompileEmulator, sources, binaries
<1>1. reading = Absent /\ todo = <<>>
  BY NothingRuns
<1>2. objects' \in Version /\ objects' # NotBuilt
  BY ContentFacts DEF BuildTypes, NotBuilt
<1>3. BuildTypes' /\ FileTypes' /\ CommandTypes'
  BY <1>2 DEF BuildTypes, FileTypes, CommandTypes
<1>4. Chain' /\ BinaryIsCurrent' /\ ChainAgrees' /\ Reads' /\ Running'
  BY <1>1, ContentsStay
<1>5. Queue' /\ Binary' /\ Grown' /\ EveryTestIsJudged'
  BY <1>1, <1>2, NothingQueued DEF Binary, Grown, EveryTestIsJudged
<1>6. command = "test" => objects' = emulator
  BY DEF Rebuilt
<1>7. Rebuilt'
  BY <1>1, <1>6 DEF Rebuilt, Grown, NotOlder
<1>. QED
  BY <1>3, <1>4, <1>5, <1>7

LEMMA LinkEmulatorInv ==
  ASSUME PipelineInv, LinkEmulator
  PROVE  PipelineInv'
<1>. USE DEF PipelineInv, LinkEmulator, sources, binaries
<1>1. reading = Absent
  BY NothingRuns
<1>2. BuildTypes' /\ FileTypes' /\ CommandTypes'
  BY OrderFacts DEF BuildTypes, FileTypes, CommandTypes
<1>3. Chain' /\ BinaryIsCurrent' /\ ChainAgrees' /\ Reads' /\ Running'
  BY <1>1, ContentsStay
<1>4. Queue'
  <2>1. Len(todo') = 3 * TESTS /\ todo' = Order /\ point' = "targets" /\ 3 * TESTS \in Nat
    BY OrderFacts
  <2>2. Done' = 0
    BY <2>1 DEF Done
  <2>. QED
    BY <2>1, <2>2 DEF Queue
<1>5. Binary' /\ Grown' /\ EveryTestIsJudged'
  BY DEF Binary, Grown, EveryTestIsJudged
<1>6. Rebuilt'
  BY <1>1 DEF Rebuilt, NotOlder
<1>. QED
  BY <1>2, <1>3, <1>4, <1>5, <1>6

LEMMA BuildFailsInv ==
  ASSUME PipelineInv, BuildFails
  PROVE  PipelineInv'
<1>. USE DEF PipelineInv, BuildFails, sources, binaries
<1>1. reading = Absent /\ todo = <<>>
  BY NothingRuns
<1>2. BuildTypes' /\ FileTypes' /\ CommandTypes'
  BY DEF BuildTypes, FileTypes, CommandTypes
<1>3. Chain' /\ BinaryIsCurrent' /\ ChainAgrees' /\ Reads' /\ Running'
  BY <1>1, ContentsStay
<1>4. command = "test" => r5emu = NotBuilt
  BY DEF Rebuilt
<1>5. Queue' /\ Binary' /\ Grown' /\ EveryTestIsJudged'
  BY <1>1, <1>4, NothingQueued DEF Binary, Grown, EveryTestIsJudged
<1>6. Rebuilt'
  BY <1>1 DEF Rebuilt, NotOlder
<1>. QED
  BY <1>2, <1>3, <1>5, <1>6

\* When make has come to all targets, every one of them is there.
LEMMA AllMadeInv ==
  ASSUME PipelineInv, AllMade
  PROVE  PipelineInv'
<1>. USE DEF PipelineInv, AllMade, sources, binaries
<1>1. reading = Absent
  BY DEF Running
<1>2. point' \in {"compare", "idle"} /\ (command = "test" => point' = "compare")
  OBVIOUS
<1>3. BuildTypes' /\ FileTypes' /\ CommandTypes'
  BY <1>2 DEF BuildTypes, FileTypes, CommandTypes
<1>4. Chain' /\ BinaryIsCurrent' /\ ChainAgrees' /\ Reads' /\ Running'
  BY <1>1, ContentsStay
<1>5. Queue' /\ Binary' /\ Grown' /\ EveryTestIsJudged'
  BY <1>1, <1>2, NothingQueued DEF Binary, Grown, EveryTestIsJudged
<1>6. \A t \in Test : files[<<"soln", t>>].state # "absent"
  <2>1. Len(todo) = 0
    OBVIOUS
  <2>2. Done = 3 * TESTS
    BY <2>1, OrderFacts DEF Done
  <2>3. \A n \in 1 .. 3 * TESTS : files[Order[n]].state # "absent"
    BY <2>2 DEF Queue
  <2>. QED
    BY <2>3, OrderFacts
<1>7. Rebuilt'
  BY <1>1, <1>2, <1>6 DEF Rebuilt, NotOlder
<1>. QED
  BY <1>3, <1>4, <1>5, <1>7

LEMMA RunTestsInv ==
  ASSUME PipelineInv, RunTests
  PROVE  PipelineInv'
<1>. USE DEF PipelineInv, RunTests, sources, binaries
<1>1. reading = Absent /\ todo = <<>>
  BY NothingRuns
<1>2. \A t \in Test :
        /\ verdict'[t] \in {"missing", "passed", "failed", "error"}
        /\ verdict'[t] = "missing" => files[<<"soln", t>>].state = "absent"
        /\ verdict'[t] = "passed" => files[<<"soln", t>>].state = "whole"
  BY DEF Compared
<1>3. BuildTypes' /\ FileTypes'
  BY DEF BuildTypes, FileTypes
<1>4. CommandTypes'
  BY <1>2 DEF CommandTypes
<1>5. Chain' /\ BinaryIsCurrent' /\ ChainAgrees' /\ Reads' /\ Running'
  BY <1>1, ContentsStay
<1>6. Queue' /\ Binary' /\ Grown'
  BY <1>1, NothingQueued DEF Binary, Grown
<1>7. EveryTestIsJudged'
  BY <1>2 DEF EveryTestIsJudged, Rebuilt
<1>8. Rebuilt'
  BY <1>1, <1>2 DEF Rebuilt, NotOlder
<1>. QED
  BY <1>3, <1>4, <1>5, <1>6, <1>7, <1>8

LEMMA UnchangedPipelineInv ==
  ASSUME PipelineInv, UNCHANGED pvars
  PROVE  PipelineInv'
<1>. USE DEF PipelineInv, pvars, sources, binaries
<1>1. BuildTypes' /\ FileTypes' /\ CommandTypes'
  BY DEF BuildTypes, FileTypes, CommandTypes
<1>2. Chain' /\ BinaryIsCurrent' /\ ChainAgrees' /\ Reads' /\ Running'
  BY ContentsStay
<1>3. Queue' /\ Binary' /\ Grown' /\ EveryTestIsJudged' /\ Rebuilt'
  BY DEF Queue, Done, Binary, Grown, EveryTestIsJudged, Rebuilt, NotOlder
<1>. QED
  BY <1>1, <1>2, <1>3

-----------------------------------------------------------------------------
(* Steps of a recipe. *)

\* The queue without its first target.
LEMMA RestOfQueue ==
  ASSUME PipelineInv, point = "targets", todo # <<>>, point' = point, todo' = Tail(todo),
         \A g \in Target : files[g].state # "absent" => files'[g].state # "absent",
         files'[Head(todo)].state # "absent"
  PROVE  Queue' /\ todo' \in Seq(Target)
<1>. USE DEF PipelineInv
<1>1. todo \in Seq(Target) /\ Len(todo) \in 1 .. 3 * TESTS /\ Head(todo) = todo[1]
  BY DEF FileTypes, Queue
<1>2. todo' \in Seq(Target) /\ Len(todo') = Len(todo) - 1
      /\ \A n \in 1 .. Len(todo') : todo'[n] = todo[n + 1]
  BY <1>1
<1>3. Done' = Done + 1 /\ Done \in 0 .. 3 * TESTS - 1
  BY <1>1, <1>2, OrderFacts DEF Done
<1>4. ASSUME NEW n \in 1 .. Len(todo') PROVE todo'[n] = Order[Done' + n]
  <2>1. n + 1 \in 1 .. Len(todo) /\ Done' + n = Done + (n + 1)
    BY <1>1, <1>2, <1>3
  <2>. QED
    BY <1>2, <2>1 DEF Queue
<1>5. ASSUME NEW n \in 1 .. Done' PROVE files'[Order[n]].state # "absent"
  <2>1. CASE n \in 1 .. Done
    <3>1. n \in 1 .. 3 * TESTS
      BY <1>3, <2>1, OrderFacts
    <3>2. Order[n] \in Target /\ files[Order[n]].state # "absent"
      BY <2>1, <3>1, OrderFacts DEF Queue
    <3>. QED
      BY <3>2
  <2>2. CASE n = Done + 1
    BY <2>2, HeadFacts
  <2>. QED
    BY <1>3, <2>1, <2>2
<1>6. Len(todo') \in 0 .. 3 * TESTS
  BY <1>1, <1>2, OrderFacts
<1>. QED
  BY <1>2, <1>4, <1>5, <1>6 DEF Queue

LEMMA UpToDateInv ==
  ASSUME PipelineInv, UpToDate
  PROVE  PipelineInv'
<1>. USE DEF PipelineInv, UpToDate, sources, binaries
<1>1. Queue' /\ todo' \in Seq(Target)
  BY RestOfQueue DEF NeedsMaking
<1>2. BuildTypes' /\ FileTypes' /\ CommandTypes'
  BY <1>1 DEF BuildTypes, FileTypes, CommandTypes
<1>3. Chain' /\ BinaryIsCurrent' /\ ChainAgrees' /\ Reads' /\ Running'
  BY ContentsStay
<1>4. Binary' /\ Grown' /\ EveryTestIsJudged' /\ Rebuilt'
  BY DEF Binary, Grown, EveryTestIsJudged, Rebuilt, NotOlder
<1>. QED
  BY <1>1, <1>2, <1>3, <1>4

\* What a recipe makes of what is there.
LEMMA ProductFacts ==
  ASSUME PipelineInv, point = "targets", NEW g \in Target
  PROVE  /\ Product(g) \in Content /\ Product(g).state \in {"whole", "damaged"}
         /\ g[1] = "bin" => Product(g).test = source[g[2]]
         /\ g[1] = "archobj" /\ Product(g).state = "whole" =>
              /\ files[<<"bin", g[2]>>].state = "whole"
              /\ Product(g).test = files[<<"bin", g[2]>>].test
         /\ g[1] = "soln" /\ Product(g).state = "whole" =>
              /\ files[<<"archobj", g[2]>>].state = "whole"
              /\ Product(g).test = files[<<"archobj", g[2]>>].test
              /\ Product(g).emu = r5emu
<1>. USE DEF PipelineInv
<1>1. g[1] \in Kind /\ g[2] \in Test
  BY TargetFacts
<1>2. source[g[2]] \in Version /\ r5emu \in Version /\ 0 \in Version
  BY <1>1, ContentFacts DEF BuildTypes, Binary
<1>3. files[<<"bin", g[2]>>].test \in Version /\ files[<<"archobj", g[2]>>].test \in Version
  <2>1. <<"bin", g[2]>> \in Target /\ <<"archobj", g[2]>> \in Target
    BY <1>1, TargetFacts DEF Kind
  <2>. QED
    BY <2>1 DEF FileTypes, Content
<1>4. CASE g[1] = "bin"
  BY <1>2, <1>4, ContentFacts DEF Product
<1>5. CASE g[1] = "archobj"
  <2>. DEFINE from == files[<<"bin", g[2]>>]
  <2>1. Product(g) = IF from.state # "whole" THEN Damaged ELSE Whole(from.test, 0)
    BY <1>5 DEF Product
  <2>2. from.test \in Version
    BY <1>3
  <2>. HIDE DEF from
  <2>3. CASE from.state # "whole"
    BY <1>5, <2>1, <2>3, ContentFacts
  <2>4. CASE from.state = "whole"
    <3>1. Product(g) = Whole(from.test, 0)
      BY <2>1, <2>4
    <3>2. Whole(from.test, 0) \in Content /\ Whole(from.test, 0).state = "whole"
          /\ Whole(from.test, 0).test = from.test
      BY <1>2, <2>2, ContentFacts
    <3>. QED
      BY <1>5, <2>4, <3>1, <3>2 DEF from
  <2>. QED
    BY <2>3, <2>4
<1>6. CASE g[1] = "soln"
  <2>. DEFINE from == files[<<"archobj", g[2]>>]
  <2>1. Product(g) = IF from.state # "whole" THEN Damaged ELSE Whole(from.test, r5emu)
    BY <1>6 DEF Product
  <2>2. from.test \in Version
    BY <1>3
  <2>. HIDE DEF from
  <2>3. CASE from.state # "whole"
    BY <1>6, <2>1, <2>3, ContentFacts
  <2>4. CASE from.state = "whole"
    <3>1. Product(g) = Whole(from.test, r5emu)
      BY <2>1, <2>4
    <3>2. Whole(from.test, r5emu) \in Content /\ Whole(from.test, r5emu).state = "whole"
          /\ Whole(from.test, r5emu).test = from.test /\ Whole(from.test, r5emu).emu = r5emu
      BY <1>2, <2>2, ContentFacts
    <3>. QED
      BY <1>6, <2>4, <3>1, <3>2 DEF from
  <2>. QED
    BY <2>3, <2>4
<1>. QED
  BY <1>1, <1>4, <1>5, <1>6 DEF Kind

\* A recipe that starts empties its target or leaves it, and is going to write
\* what agrees with what is there.
LEMMA StartRecipeInv ==
  ASSUME PipelineInv, StartRecipe
  PROVE  PipelineInv'
<1>. DEFINE g == Head(todo)
            t == g[2]
            content == IF g[1] = "bin" THEN files[g] ELSE Damaged
<1>. USE DEF PipelineInv
<1>1. /\ point = "targets" /\ todo # <<>> /\ reading = Absent
      /\ NeedsMaking(g)
      /\ reading' = Product(g)
      /\ raced' = (IF g[1] = "bin" THEN raced \ {t} ELSE raced)
      /\ kept' = (IF g[1] = "bin" THEN kept \ {t} ELSE kept)
      /\ IF g[1] = "bin" THEN files' = files ELSE files' = [files EXCEPT ![g] = Damaged]
      /\ UNCHANGED <<source, emulator, objects, changed, r5emu, outdated, command, point, todo,
                     verdict, since>>
  BY DEF StartRecipe, sources, binaries
<1>2. /\ g \in Target /\ g = <<g[1], t>> /\ g[1] \in Kind /\ t \in Test
      /\ g[1] = "archobj" => files[<<"bin", t>>].state # "absent"
      /\ g[1] = "soln" => files[<<"archobj", t>>].state # "absent"
  BY <1>1, HeadFacts, TargetFacts
<1>0. g = Head(todo) /\ t = g[2] /\ (g[1] = "bin" => content = files[g]) /\ (g[1] # "bin" => content = Damaged)
  OBVIOUS
<1>. HIDE DEF g, t, content
<1>3. /\ files' \in [Target -> Content]
      /\ \A h \in Target : files'[h] = IF h = g THEN content ELSE files[h]
  BY <1>0, <1>1, <1>2, ContentFacts DEF FileTypes
<1>4. \A k \in Kind : \A u \in Test :
        files'[<<k, u>>] = IF k = g[1] /\ u = t THEN content ELSE files[<<k, u>>]
  <2>. SUFFICES ASSUME NEW k \in Kind, NEW u \in Test
                PROVE  files'[<<k, u>>] = IF k = g[1] /\ u = t THEN content ELSE files[<<k, u>>]
    OBVIOUS
  <2>1. <<k, u>> \in Target /\ (<<k, u>> = g <=> k = g[1] /\ u = t)
    BY <1>2, TargetFacts
  <2>. QED
    BY <1>3, <2>1
<1>5. reading' \in Content /\ reading'.state \in {"whole", "damaged"}
  BY <1>1, <1>2, ProductFacts
<1>6. BuildTypes' /\ FileTypes' /\ CommandTypes'
  BY <1>1, <1>3, <1>5 DEF BuildTypes, FileTypes, CommandTypes
<1>7. Queue'
  <2>1. \A n \in 1 .. Done : n \in 1 .. 3 * TESTS /\ Order[n] \in Target
    BY <1>1, HeadFacts, OrderFacts DEF Done, Queue
  <2>2. \A h \in Target : files[h].state # "absent" => files'[h].state # "absent"
    BY <1>0, <1>3, ContentFacts
  <2>3. \A n \in 1 .. Done : files'[Order[n]].state # "absent"
    BY <1>1, <2>1, <2>2 DEF Queue
  <2>. QED
    BY <1>1, <2>3 DEF Queue, Done
<1>8. Running'
  BY <1>0, <1>1, <1>3, <1>2, <1>5 DEF Running
<1>9. \A k \in Kind : \A u \in Test :
        files'[<<k, u>>].state \in {"absent", "whole"} =>
          files'[<<k, u>>] = files[<<k, u>>]
  BY <1>0, <1>2, <1>4, ContentFacts
<1>10. Chain'
  <2>1. ASSUME NEW u \in Test, files'[<<"bin", u>>].state = "absent"
        PROVE  files'[<<"archobj", u>>].state = "absent"
    <3>1. files[<<"bin", u>>].state = "absent" /\ files[<<"archobj", u>>].state = "absent"
      BY <1>9, <2>1 DEF Chain, Kind
    <3>2. ~ (g[1] = "archobj" /\ u = t)
      BY <1>2, <3>1
    <3>. QED
      BY <1>4, <3>1, <3>2 DEF Kind
  <2>2. ASSUME NEW u \in Test, files'[<<"archobj", u>>].state = "absent"
        PROVE  files'[<<"soln", u>>].state = "absent"
    <3>1. files[<<"archobj", u>>].state = "absent" /\ files[<<"soln", u>>].state = "absent"
      BY <1>9, <2>2 DEF Chain, Kind
    <3>2. ~ (g[1] = "soln" /\ u = t)
      BY <1>2, <3>1
    <3>. QED
      BY <1>4, <3>1, <3>2 DEF Kind
  <2>. QED
    BY <2>1, <2>2 DEF Chain
<1>11. BinaryIsCurrent'
  <2>. SUFFICES ASSUME NEW u \in Test, u \notin raced', u \notin kept', <<"bin", u>> \notin outdated,
                       files'[<<"bin", u>>].state = "whole"
                PROVE  files'[<<"bin", u>>].test = source[u]
    BY <1>1 DEF BinaryIsCurrent
  <2>1. files'[<<"bin", u>>] = files[<<"bin", u>>]
    BY <1>9 DEF Kind
  <2>2. ~ (g[1] = "bin" /\ u = t)
    BY <1>1, <1>2, <2>1 DEF NeedsMaking
  <2>3. u \notin raced /\ u \notin kept
    BY <1>1, <2>2
  <2>. QED
    BY <2>1, <2>3 DEF BinaryIsCurrent
<1>12. ChainAgrees'
  <2>. SUFFICES ASSUME NEW u \in Test, <<"archobj", u>> \notin outdated
                PROVE  /\ files'[<<"archobj", u>>].state = "whole" =>
                            /\ files'[<<"bin", u>>].state = "whole"
                            /\ files'[<<"bin", u>>].test = files'[<<"archobj", u>>].test
                       /\ <<"soln", u>> \notin outdated /\ files'[<<"soln", u>>].state = "whole" =>
                            /\ files'[<<"archobj", u>>].state = "whole"
                            /\ files'[<<"archobj", u>>].test = files'[<<"soln", u>>].test
    BY <1>1 DEF ChainAgrees
  <2>1. files'[<<"bin", u>>] = files[<<"bin", u>>]
    BY <1>0, <1>2, <1>4 DEF Kind
  <2>2. CASE files'[<<"archobj", u>>] = files[<<"archobj", u>>]
    BY <1>9, <2>1, <2>2 DEF ChainAgrees, Kind
  <2>3. CASE files'[<<"archobj", u>>] # files[<<"archobj", u>>]
    <3>1. g = <<"archobj", u>> /\ files'[<<"archobj", u>>] = Damaged
      BY <1>0, <1>2, <1>4, <2>3 DEF Kind
    <3>2. files[<<"archobj", u>>].state = "absent"
      BY <1>1, <3>1 DEF NeedsMaking
    <3>3. files[<<"soln", u>>].state = "absent"
      BY <3>2 DEF Chain
    <3>4. files'[<<"soln", u>>].state # "whole"
      BY <1>9, <3>3 DEF Kind
    <3>. QED
      BY <3>1, <3>4, ContentFacts
  <2>. QED
    BY <2>2, <2>3
<1>13. Reads'
  <2>. SUFFICES ASSUME reading'.state = "whole"
                PROVE  /\ g[1] = "bin" => reading'.test = source[t]
                       /\ g[1] = "archobj" => /\ files'[<<"bin", t>>].state = "whole"
                                              /\ files'[<<"bin", t>>].test = reading'.test
                       /\ g[1] = "soln" => /\ files'[<<"archobj", t>>].state = "whole"
                                           /\ files'[<<"archobj", t>>].test = reading'.test
    BY <1>0, <1>1 DEF Reads
  <2>1. g[1] = "archobj" => files'[<<"bin", t>>] = files[<<"bin", t>>]
    BY <1>2, <1>4 DEF Kind
  <2>2. g[1] = "soln" => files'[<<"archobj", t>>] = files[<<"archobj", t>>]
    BY <1>2, <1>4 DEF Kind
  <2>. QED
    BY <1>0, <1>1, <1>2, <2>1, <2>2, ProductFacts
<1>14. Rebuilt'
  <2>. SUFFICES ASSUME command = "test" PROVE Rebuilt'
    BY <1>1 DEF Rebuilt
  <2>1. /\ verdict = [u \in Test |-> "none"] /\ r5emu >= since.emulator
        /\ \A h \in Target : NotOlder(h, files[h])
    BY <1>1 DEF Rebuilt
  <2>2. \A h \in Target : NotOlder(h, files[h])'
    BY <1>0, <1>1, <1>3, <2>1, ContentFacts DEF NotOlder
  <2>3. NotOlder(g, reading)'
    <3>1. g[1] = "bin" => reading'.test >= since.source[t]
      BY <1>0, <1>1, <1>2, ProductFacts DEF Grown
    <3>2. g[1] # "bin" /\ reading'.state = "whole" => reading'.test >= since.source[t]
      <4>1. <<"bin", t>> \in Target /\ <<"archobj", t>> \in Target
            /\ <<"bin", t>>[2] = t /\ <<"archobj", t>>[2] = t
        BY <1>2, TargetFacts DEF Kind
      <4>2. \A k \in {"bin", "archobj"} :
              files[<<k, t>>].state = "whole" => files[<<k, t>>].test >= since.source[t]
        BY <2>1, <4>1 DEF NotOlder
      <4>. QED
        BY <1>0, <1>1, <1>2, <4>2, ProductFacts DEF Kind
    <3>3. g[1] = "soln" /\ reading'.state = "whole" => reading'.emu >= since.emulator
      BY <1>1, <1>2, <2>1, ProductFacts
    <3>. QED
      BY <1>1, <3>1, <3>2, <3>3 DEF NotOlder, g, t
  <2>. QED
    BY <1>1, <2>1, <2>2, <2>3 DEF Rebuilt, g
<1>15. Binary' /\ Grown' /\ EveryTestIsJudged'
  BY <1>1 DEF Binary, Grown, EveryTestIsJudged
<1>. QED
  BY <1>6, <1>7, <1>8, <1>10, <1>11, <1>12, <1>13, <1>14, <1>15

\* What may be in the target when its recipe has written it: its output, an
\* incomplete one, or the binary that was there.
Left(content) ==
  \/ content \in {reading, Damaged} /\ UNCHANGED kept
  \/ /\ Head(todo)[1] = "bin" /\ content = files[Head(todo)] /\ content.state = "whole"
     /\ kept' = kept \cup {Head(todo)[2]}

\* What is left in a target agrees with the rest: it is made from what was
\* there, and what is made from it is outdated.
LEMMA WrittenInv ==
  ASSUME PipelineInv, reading # Absent, NEW content, Left(content), Written(content),
         UNCHANGED <<source, raced>>
  PROVE  /\ Chain' /\ BinaryIsCurrent' /\ ChainAgrees'
         /\ files' \in [Target -> Content] /\ outdated' \subseteq Target /\ kept' \subseteq Test
         /\ Head(todo) \in Target
         /\ \A h \in Target : files'[h] = IF h = Head(todo) THEN content ELSE files[h]
         /\ content.state # "absent"
<1>. DEFINE g == Head(todo)
            t == g[2]
<1>. USE DEF PipelineInv
<1>1. /\ point = "targets" /\ todo # <<>> /\ reading.state # "absent"
      /\ g[1] # "bin" => files[g] = Damaged
  BY DEF Running
<1>2. /\ g \in Target /\ g = <<g[1], t>> /\ g[1] \in Kind /\ t \in Test
      /\ g[1] = "archobj" => files[<<"bin", t>>].state # "absent"
      /\ g[1] = "soln" => files[<<"archobj", t>>].state # "absent"
  BY <1>1, HeadFacts, TargetFacts
<1>3. /\ files' = [files EXCEPT ![g] = content]
      /\ outdated' = (outdated \ {g}) \cup MadeFrom(g)
  BY DEF Written
<1>4. \/ content \in {reading, Damaged} /\ kept' = kept
      \/ g[1] = "bin" /\ content = files[g] /\ content.state = "whole" /\ kept' = kept \cup {t}
  BY DEF Left
<1>5. content \in Content /\ content.state # "absent" /\ kept' \subseteq Test
  BY <1>1, <1>2, <1>4, ContentFacts DEF FileTypes
<1>6. content.state = "whole" =>
        /\ g[1] = "bin" /\ t \notin raced /\ t \notin kept' => content.test = source[t]
        /\ g[1] = "archobj" => /\ files[<<"bin", t>>].state = "whole"
                               /\ files[<<"bin", t>>].test = content.test
        /\ g[1] = "soln" => /\ files[<<"archobj", t>>].state = "whole"
                            /\ files[<<"archobj", t>>].test = content.test
  <2>1. content.state = "whole" /\ (g[1] # "bin" \/ t \notin kept') => content = reading
    BY <1>4, ContentFacts
  <2>. QED
    BY <2>1 DEF Reads
<1>7. g = Head(todo)
  OBVIOUS
<1>. HIDE DEF g, t
<1>8. files' \in [Target -> Content] /\ \A h \in Target : files'[h] = IF h = g THEN content ELSE files[h]
  BY <1>2, <1>3, <1>5 DEF FileTypes
<1>9. outdated' \subseteq Target
  BY <1>2, <1>3, TargetFacts DEF FileTypes
<1>10. ASSUME NEW k \in Kind, NEW u \in Test
       PROVE  /\ <<k, u>> \in Target
              /\ files'[<<k, u>>] = IF k = g[1] /\ u = t THEN content ELSE files[<<k, u>>]
              /\ <<k, u>> = g <=> k = g[1] /\ u = t
  <2>1. <<k, u>> \in Target /\ (<<k, u>> = g <=> k = g[1] /\ u = t)
    BY <1>2, TargetFacts
  <2>. QED
    BY <1>8, <2>1
<1>11. Chain'
  <2>1. \A k \in Kind : \A u \in Test :
          files'[<<k, u>>].state = "absent" => files[<<k, u>>].state = "absent" /\ ~ (k = g[1] /\ u = t)
    BY <1>5, <1>10
  <2>2. ASSUME NEW u \in Test, files'[<<"bin", u>>].state = "absent"
        PROVE  files'[<<"archobj", u>>].state = "absent"
    <3>1. files[<<"bin", u>>].state = "absent" /\ files[<<"archobj", u>>].state = "absent"
      BY <2>1, <2>2 DEF Chain, Kind
    <3>2. ~ (g[1] = "archobj" /\ u = t)
      BY <1>2, <3>1
    <3>. QED
      BY <1>10, <3>1, <3>2 DEF Kind
  <2>3. ASSUME NEW u \in Test, files'[<<"archobj", u>>].state = "absent"
        PROVE  files'[<<"soln", u>>].state = "absent"
    <3>1. files[<<"archobj", u>>].state = "absent" /\ files[<<"soln", u>>].state = "absent"
      BY <2>1, <2>3 DEF Chain, Kind
    <3>2. ~ (g[1] = "soln" /\ u = t)
      BY <1>2, <3>1
    <3>. QED
      BY <1>10, <3>1, <3>2 DEF Kind
  <2>. QED
    BY <2>2, <2>3 DEF Chain
<1>12. ASSUME NEW u \in Test, u # t
       PROVE  \A k \in Kind : /\ files'[<<k, u>>] = files[<<k, u>>]
                              /\ <<k, u>> \in outdated' <=> <<k, u>> \in outdated
  <2>. SUFFICES ASSUME NEW k \in Kind
                PROVE  /\ files'[<<k, u>>] = files[<<k, u>>]
                       /\ <<k, u>> \in outdated' <=> <<k, u>> \in outdated
    OBVIOUS
  <2>1. \A h \in MadeFrom(g) : h[2] = t
    BY <1>2 DEF MadeFrom, Kind, t
  <2>2. <<k, u>> \notin MadeFrom(g)
    BY <1>12, <2>1
  <2>. QED
    BY <1>3, <1>10, <1>12, <2>2
<1>13. BinaryIsCurrent'
  <2>. SUFFICES ASSUME NEW u \in Test, u \notin raced, u \notin kept', <<"bin", u>> \notin outdated',
                       files'[<<"bin", u>>].state = "whole"
                PROVE  files'[<<"bin", u>>].test = source[u]
    BY DEF BinaryIsCurrent
  <2>0. u \notin kept
    BY <1>4
  <2>1. CASE u # t
    BY <1>12, <2>0, <2>1 DEF BinaryIsCurrent, Kind
  <2>2. CASE u = t /\ g[1] = "bin"
    BY <1>6, <1>10, <2>2 DEF Kind
  <2>3. CASE u = t /\ g[1] # "bin"
    <3>1. <<"bin", u>> \notin outdated
      BY <1>2, <1>3, <1>10, <2>3 DEF Kind
    <3>2. files'[<<"bin", u>>] = files[<<"bin", u>>]
      BY <1>2, <1>10, <2>3 DEF Kind
    <3>. QED
      BY <2>0, <3>1, <3>2 DEF BinaryIsCurrent
  <2>. QED
    BY <2>1, <2>2, <2>3
<1>14. ASSUME NEW u \in Test, <<"archobj", u>> \notin outdated'
       PROVE  /\ files'[<<"archobj", u>>].state = "whole" =>
                   /\ files'[<<"bin", u>>].state = "whole"
                   /\ files'[<<"bin", u>>].test = files'[<<"archobj", u>>].test
              /\ <<"soln", u>> \notin outdated' /\ files'[<<"soln", u>>].state = "whole" =>
                   /\ files'[<<"archobj", u>>].state = "whole"
                   /\ files'[<<"archobj", u>>].test = files'[<<"soln", u>>].test
  <2>1. CASE u # t
    BY <1>12, <1>14, <2>1 DEF ChainAgrees, Kind
  <2>2. CASE u = t /\ g[1] = "bin"
    <3>1. <<"archobj", u>> \in outdated'
      BY <1>3, <2>2 DEF MadeFrom, t
    <3>. QED
      BY <1>14, <3>1
  <2>3. CASE u = t /\ g[1] = "archobj"
    <3>1. <<"soln", u>> \in outdated'
      BY <1>3, <2>3 DEF MadeFrom, t
    <3>2. files'[<<"archobj", u>>] = content /\ files'[<<"bin", u>>] = files[<<"bin", u>>]
      BY <1>2, <1>10, <2>3 DEF Kind
    <3>. QED
      BY <1>6, <2>3, <3>1, <3>2
  <2>4. CASE u = t /\ g[1] = "soln"
    <3>1. /\ files'[<<"soln", u>>] = content /\ files'[<<"bin", u>>] = files[<<"bin", u>>]
          /\ files'[<<"archobj", u>>] = files[<<"archobj", u>>]
      BY <1>2, <1>10, <2>4 DEF Kind
    <3>2. <<"archobj", u>> \notin outdated
      BY <1>2, <1>3, <1>10, <1>14, <2>4 DEF Kind
    <3>. QED
      BY <1>6, <2>4, <3>1, <3>2 DEF ChainAgrees
  <2>. QED
    BY <1>2, <2>1, <2>2, <2>3, <2>4 DEF Kind
<1>15. ChainAgrees'
  BY <1>14 DEF ChainAgrees
<1>. QED
  BY <1>2, <1>5, <1>7, <1>8, <1>9, <1>11, <1>13, <1>15

\* A recipe ends: with its output, or without.
LEMMA RecipeLeavesInv ==
  ASSUME PipelineInv, reading # Absent, NEW content, Left(content), RecipeLeaves(content)
  PROVE  PipelineInv'
<1>. USE DEF PipelineInv
<1>1. /\ Written(content)
      /\ todo' = Tail(todo) /\ reading' = Absent
      /\ UNCHANGED <<source, emulator, objects, changed, r5emu, command, point, verdict, since, raced>>
  BY DEF RecipeLeaves, sources, binaries
<1>2. /\ point = "targets" /\ todo # <<>> /\ reading.state # "absent"
  BY DEF Running
<1>3. /\ Chain' /\ BinaryIsCurrent' /\ ChainAgrees'
      /\ files' \in [Target -> Content] /\ outdated' \subseteq Target /\ kept' \subseteq Test
      /\ Head(todo) \in Target
      /\ \A h \in Target : files'[h] = IF h = Head(todo) THEN content ELSE files[h]
      /\ content.state # "absent"
  BY <1>1, WrittenInv
<1>4. files'[Head(todo)].state # "absent"
      /\ \A h \in Target : files[h].state # "absent" => files'[h].state # "absent"
  BY <1>3
<1>5. Queue' /\ todo' \in Seq(Target)
  BY <1>1, <1>2, <1>3, <1>4, RestOfQueue
<1>6. BuildTypes' /\ FileTypes' /\ CommandTypes'
  BY <1>1, <1>3, <1>5, ContentFacts DEF BuildTypes, FileTypes, CommandTypes
<1>7. Running' /\ Reads'
  BY <1>1, ContentFacts DEF Running, Reads
<1>8. Binary' /\ Grown' /\ EveryTestIsJudged'
  BY <1>1 DEF Binary, Grown, EveryTestIsJudged
<1>9. Rebuilt'
  <2>. SUFFICES ASSUME command = "test" PROVE Rebuilt'
    BY <1>1 DEF Rebuilt
  <2>1. /\ verdict = [u \in Test |-> "none"] /\ r5emu >= since.emulator
        /\ \A h \in Target : NotOlder(h, files[h])
        /\ NotOlder(Head(todo), reading)
    BY <1>2 DEF Rebuilt
  <2>2. NotOlder(Head(todo), content)
    <3>1. content \in {reading, Damaged, files[Head(todo)]}
      BY DEF Left
    <3>2. NotOlder(Head(todo), Damaged)
      BY AbsentFacts
    <3>3. NotOlder(Head(todo), files[Head(todo)])
      BY <1>3, <2>1
    <3>. QED
      BY <2>1, <3>1, <3>2, <3>3
  <2>3. \A h \in Target : NotOlder(h, files'[h])
    BY <1>3, <2>1, <2>2
  <2>4. \A h \in Target : NotOlder(h, files[h])'
    BY <1>1, <2>3 DEF NotOlder
  <2>. QED
    BY <1>1, <1>2, <2>1, <2>4 DEF Rebuilt
<1>. QED
  BY <1>3, <1>5, <1>6, <1>7, <1>8, <1>9

\* A recipe that is killed leaves its target as it was, or damaged.
LEMMA KillInv ==
  ASSUME PipelineInv, Kill
  PROVE  PipelineInv'
<1>. USE DEF PipelineInv
<1>1. /\ command' = "killed" /\ point' = "idle" /\ todo' = <<>> /\ reading' = Absent
      /\ objects' \in {objects, NotBuilt} /\ changed' \in BOOLEAN
      /\ UNCHANGED <<source, emulator, r5emu, verdict, since, raced, kept>>
      /\ UNCHANGED <<files, outdated>> \/ (reading # Absent /\ Written(Damaged))
  BY DEF Kill, sources, binaries, BuildTypes
<1>2. /\ Chain' /\ BinaryIsCurrent' /\ ChainAgrees'
      /\ files' \in [Target -> Content] /\ outdated' \subseteq Target
  <2>1. CASE UNCHANGED <<files, outdated>>
    BY <1>1, <2>1 DEF Chain, BinaryIsCurrent, ChainAgrees, FileTypes
  <2>2. CASE reading # Absent /\ Written(Damaged)
    <3>1. Left(Damaged)
      BY <1>1 DEF Left
    <3>. QED
      BY <1>1, <2>2, <3>1, WrittenInv
  <2>. QED
    BY <1>1, <2>1, <2>2
<1>7. BuildTypes'
  BY <1>1 DEF BuildTypes
<1>8. FileTypes'
  BY <1>1, <1>2, ContentFacts DEF FileTypes
<1>9. CommandTypes'
  BY <1>1 DEF CommandTypes
<1>4. Queue'
  BY <1>1, NothingQueued
<1>5. Running' /\ Reads' /\ Binary' /\ Grown'
  BY <1>1, ContentFacts DEF Running, Reads, Binary, Grown
<1>6. Rebuilt' /\ EveryTestIsJudged'
  BY <1>1 DEF Rebuilt, EveryTestIsJudged
<1>. QED
  BY <1>2, <1>4, <1>5, <1>6, <1>7, <1>8, <1>9

LEMMA PipelineNextInv ==
  ASSUME PipelineInv, [PipelineNext]_pvars
  PROVE  PipelineInv'
<1>1. CASE Work
  <2>1. CASE FinishRecipe
    <3>1. reading # Absent /\ Left(reading) /\ RecipeLeaves(reading)
      BY <2>1 DEF FinishRecipe, Left
    <3>. QED
      BY <3>1, RecipeLeavesInv
  <2>2. CASE GiveUp
    <3>1. reading # Absent
      BY <2>2 DEF GiveUp
    <3>2. CASE RecipeLeaves(Damaged) /\ UNCHANGED kept
      BY <3>1, <3>2, RecipeLeavesInv DEF Left
    <3>3. CASE /\ Head(todo)[1] = "bin" /\ files[Head(todo)].state = "whole"
               /\ RecipeLeaves(files[Head(todo)]) /\ kept' = kept \cup {Head(todo)[2]}
      BY <3>1, <3>3, RecipeLeavesInv DEF Left
    <3>. QED
      BY <2>2, <3>2, <3>3 DEF GiveUp
  <2>. QED
    BY <1>1, <2>1, <2>2, CleanEmulatorInv, CleanOutputsInv, CompileEmulatorInv, LinkEmulatorInv,
       BuildFailsInv, UpToDateInv, StartRecipeInv, AllMadeInv, RunTestsInv DEF Work
<1>2. CASE Command
  BY <1>2, CommandInv
<1>3. CASE Kill
  BY <1>3, KillInv
<1>4. CASE EditEmulator
  BY <1>4, EditEmulatorInv
<1>5. ASSUME NEW t \in Test, EditTest(t) PROVE PipelineInv'
  BY <1>5, EditTestInv
<1>6. CASE UNCHANGED pvars
  BY <1>6, UnchangedPipelineInv
<1>. QED
  BY <1>1, <1>2, <1>3, <1>4, <1>5, <1>6 DEF PipelineNext

LEMMA PipelineSpecInv == PipelineSpec => []PipelineInv
BY PipelineInitInv, PipelineNextInv, PTL DEF PipelineSpec

-----------------------------------------------------------------------------
(* Theorems. *)

\* The state of the build stays within its types: versions within the edits
\* made, targets and verdicts of the tests there are (Makefile,
\* object_create/Makefile, run_tests.sh).
THEOREM PipelineTypes == PipelineSpec => []PipelineTypeOK
<1>1. PipelineInv => PipelineTypeOK
  BY TypeParts DEF PipelineInv
<1>. QED
  BY <1>1, PipelineSpecInv, PTL

\* Whatever was edited, killed or timed out, and with a compiler that may fail
\* and leave the old binary: the .archobj and .soln that make does not make
\* again are of the same test as the binary.
THEOREM ChainsAgree == PipelineSpec => []ChainAgrees
<1>1. PipelineInv => ChainAgrees
  BY DEF PipelineInv
<1>. QED
  BY <1>1, PipelineSpecInv, PTL

\* What make does not make again was made from the test as it is now, unless
\* the test was edited while the compiler read it, or the compiler failed on
\* it and left the old binary: there is no third way to a stale target.
THEOREM StaleForTwoReasons == PipelineSpec => []UpToDateIsCurrent
<1>1. PipelineInv => UpToDateIsCurrent
  BY DEF PipelineInv, BinaryIsCurrent, ChainAgrees, UpToDateIsCurrent, Kind
<1>. QED
  BY <1>1, PipelineSpecInv, PTL

\* `make test` that had an emulator has a verdict on each test at its end.
THEOREM NoTestIsMissed == PipelineSpec => []EveryTestIsJudged
<1>1. PipelineInv => EveryTestIsJudged
  BY DEF PipelineInv
<1>. QED
  BY <1>1, PipelineSpecInv, PTL

\* A pass that `make test` reports is one of the test and of the emulator as
\* they were when it was started, or later, although no rule makes a .soln
\* depend on the emulator: make clean has removed the old ones.
THEOREM PassesAreEarned == PipelineSpec => []PassIsEarned
<1>1. PipelineInv => PassIsEarned
  <2>. SUFFICES ASSUME PipelineInv, NEW t \in Test, command = "test", verdict[t] = "passed"
                PROVE  /\ files[<<"soln", t>>].test >= since.source[t]
                       /\ files[<<"soln", t>>].emu >= since.emulator
    BY DEF PassIsEarned
  <2>1. files[<<"soln", t>>].state = "whole" /\ point = "idle"
    BY DEF PipelineInv, Rebuilt
  <2>2. <<"soln", t>> \in Target
    BY TargetFacts DEF Kind
  <2>3. NotOlder(<<"soln", t>>, files[<<"soln", t>>])
    BY <2>1, <2>2 DEF PipelineInv, Rebuilt
  <2>. QED
    BY <2>1, <2>3 DEF NotOlder
<1>. QED
  BY <1>1, PipelineSpecInv, PTL
=============================================================================
