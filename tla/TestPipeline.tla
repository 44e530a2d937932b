---------------------------- MODULE TestPipeline ----------------------------
(***************************************************************************)
(* How the tests of phase 3 are built and judged: its Makefile, that of    *)
(* object_create, and run_tests.sh, while the programmer edits the sources *)
(* of the tests and of the emulator.                                       *)
(*                                                                         *)
(* A test is a chain of files: .S, .bin, .archobj, .soln.  The content of  *)
(* a file is given by the versions it was made from.  Make compares times; *)
(* all that matters of them is whether a file is older than the one it is  *)
(* made from, which `outdated` holds.  The listings (.asm, .rawasm) are    *)
(* not compared with anything and left out.                                *)
(***************************************************************************)
EXTENDS Integers, Sequences

CONSTANTS
  TESTS,      \* number of tests
  EDITS,      \* bound: how often a source is edited
  Correct,    \* <<version of the test, version of the emulator>>: the output
              \* is the one in tests/examples
  Endless     \* the emulator does not stop

ASSUME PipelineAssumption ==
  /\ TESTS \in Nat \ {0} /\ EDITS \in Nat
  /\ Correct \cap Endless = {}
  /\ Correct \cup Endless \subseteq (0 .. EDITS) \X (0 .. EDITS)

VARIABLES
  source,     \* version of each .S
  emulator,   \* version of src/*.c
  objects,    \* version the object files of src/ are compiled from
  changed,    \* is a source of the emulator newer than its object file?
  r5emu,      \* version the binary is linked from
  files,      \* content of each target
  outdated,   \* targets older than their prerequisite
  command,    \* the last command given
  point,      \* how far it is
  todo,       \* targets that make has not come to
  reading,    \* what the running recipe will write; Absent if none runs
  verdict,    \* what run_tests.sh said of each test
  since,      \* history: the versions when the command was given
  raced,      \* history: tests edited while the compiler read them
  kept        \* history: tests whose old binary a failing compiler left

Test    == 1 .. TESTS
Kind    == {"bin", "archobj", "soln"}
Target  == Kind \X Test
Version == 0 .. EDITS

Content == [state : {"absent", "damaged", "whole"}, test : Version, emu : Version]
Whole(v, e) == [state |-> "whole", test |-> v, emu |-> e]
Absent  == [state |-> "absent", test |-> 0, emu |-> 0]
Damaged == [state |-> "damaged", test |-> 0, emu |-> 0]

NotBuilt == -1

sources  == <<source, emulator>>
binaries == <<objects, changed, r5emu>>
pvars == <<sources, binaries, files, outdated, command, point, todo, reading, verdict, since, raced, kept>>

PipelineInit ==
  /\ source = [t \in Test |-> 0] /\ emulator = 0
  /\ objects = NotBuilt /\ r5emu = NotBuilt /\ changed = FALSE
  /\ files = [g \in Target |-> Absent] /\ outdated = {}
  /\ command = "none" /\ point = "idle" /\ todo = <<>> /\ reading = Absent
  /\ verdict = [t \in Test |-> "none"]
  /\ since = [source |-> source, emulator |-> 0]
  /\ raced = {} /\ kept = {}

-----------------------------------------------------------------------------
(* The programmer. *)

\* Mutation of MadeFrom: a solution has no prerequisite.
MadeFromIncomplete(g) == IF g[1] = "bin" THEN {<<"archobj", g[2]>>} ELSE {}

\* The targets made from a file; .soln has no dependence on r5emu.
MadeFrom(g) ==
  CASE g[1] = "bin"     -> {<<"archobj", g[2]>>}
    [] g[1] = "archobj" -> {<<"soln", g[2]>>}
    [] OTHER            -> {}

Compiling(t) == reading # Absent /\ Head(todo) = <<"bin", t>>

EditTest(t) ==
  /\ source[t] < EDITS
  /\ source' = [source EXCEPT ![t] = @ + 1]
  /\ outdated' = outdated \cup {<<"bin", t>>}
  /\ raced' = IF Compiling(t) THEN raced \cup {t} ELSE raced
  /\ UNCHANGED <<emulator, binaries, files, command, point, todo, reading, verdict, since, kept>>

EditEmulator ==
  /\ emulator < EDITS
  /\ emulator' = emulator + 1 /\ changed' = TRUE
  /\ UNCHANGED <<source, objects, r5emu, files, outdated, command, point, todo, reading, verdict, since, raced, kept>>

\* make test, make, ./run_tests.sh
Begin(c, p) ==
  /\ point = "idle"
  /\ command' = c /\ point' = p
  /\ since' = [source |-> source, emulator |-> emulator]
  /\ verdict' = [t \in Test |-> "none"]
  /\ UNCHANGED <<sources, binaries, files, outdated, todo, reading, raced, kept>>

Command == Begin("test", "clean") \/ Begin("all", "emulator") \/ Begin("run_tests", "compare")

\* The target of the recipe that runs gets a content, and is newer than what
\* it is made from, whatever the content is.
Written(content) ==
  /\ files' = [files EXCEPT ![Head(todo)] = content]
  /\ outdated' = (outdated \ {Head(todo)}) \cup MadeFrom(Head(todo))

\* A command dies without cleaning up: the target of a recipe stays as it is
\* by then, which for a binary is as it was until the linker opens it; an
\* object file may be missing.
Kill ==
  /\ point # "idle"
  /\ command' = "killed" /\ point' = "idle" /\ todo' = <<>> /\ reading' = Absent
  /\ \/ (reading # Absent => Head(todo)[1] = "bin") /\ UNCHANGED <<files, outdated>>
     \/ reading # Absent /\ Written(Damaged)
  /\ objects' \in IF point = "link" THEN {objects, NotBuilt} ELSE {objects}
  /\ changed' = (changed /\ point # "link")
  /\ UNCHANGED <<sources, r5emu, verdict, since, raced, kept>>

-----------------------------------------------------------------------------
(* make clean *)

CleanEmulator ==
  /\ point = "clean"
  /\ objects' = NotBuilt /\ r5emu' = NotBuilt /\ changed' = FALSE
  /\ point' = "clean outputs"
  /\ UNCHANGED <<sources, files, outdated, command, todo, reading, verdict, since, raced, kept>>

\* Mutation of CleanOutputs: only the emulator is cleaned.
CleanNoOutputs ==
  /\ point = "clean outputs"
  /\ point' = "emulator"
  /\ UNCHANGED <<sources, binaries, files, outdated, command, todo, reading, verdict, since, raced, kept>>

\* Mutation of CleanOutputs: the directory of the .archobj is forgotten.
CleanNoObjects ==
  /\ point = "clean outputs"
  /\ files' = [g \in Target |-> IF g[1] = "archobj" THEN files[g] ELSE Absent]
  /\ outdated' = {} /\ raced' = {} /\ kept' = {}
  /\ point' = "emulator"
  /\ UNCHANGED <<sources, binaries, command, todo, reading, verdict, since>>

CleanOutputs ==
  /\ point = "clean outputs"
  /\ files' = [g \in Target |-> Absent]
  /\ outdated' = {} /\ raced' = {} /\ kept' = {}
  /\ point' = "emulator"
  /\ UNCHANGED <<sources, binaries, command, todo, reading, verdict, since>>

-----------------------------------------------------------------------------
(* make all *)

\* The order of the prerequisites of `all`: .archobj with their .bin, .soln.
Order ==
  [n \in 1 .. 3 * TESTS |->
     IF n > 2 * TESTS THEN <<"soln", n - 2 * TESTS>>
     ELSE <<IF n % 2 = 1 THEN "bin" ELSE "archobj", (n + 1) \div 2>>]

\* Object files are compiled if they are missing or older than their source.
\* The sources are read at the beginning, the object files written at the end.
CompileEmulator ==
  /\ point = "emulator"
  /\ objects' = IF objects = NotBuilt \/ changed THEN emulator ELSE objects
  /\ point' = "link"
  /\ UNCHANGED <<sources, changed, r5emu, files, outdated, command, todo, reading, verdict, since, raced, kept>>

\* Mutation of LinkEmulator: `all` does not make the binary.
LinkNothing ==
  /\ point = "link"
  /\ point' = "targets" /\ todo' = Order
  /\ UNCHANGED <<sources, binaries, files, outdated, command, reading, verdict, since, raced, kept>>

\* The binary is linked each time, as the object files provided are copied.
LinkEmulator ==
  /\ point = "link"
  /\ r5emu' = objects /\ changed' = FALSE
  /\ point' = "targets" /\ todo' = Order
  /\ UNCHANGED <<sources, objects, files, outdated, command, reading, verdict, since, raced, kept>>

\* An error of the compiler is an error of make: the old binary stays.
BuildFails ==
  /\ point = "link"
  /\ objects' = NotBuilt /\ changed' = FALSE
  /\ point' = "idle"
  /\ UNCHANGED <<sources, r5emu, files, outdated, command, todo, reading, verdict, since, raced, kept>>

NeedsMaking(g) == files[g].state = "absent" \/ g \in outdated

UpToDate ==
  /\ point = "targets" /\ todo # <<>> /\ reading = Absent
  /\ ~NeedsMaking(Head(todo))
  /\ todo' = Tail(todo)
  /\ UNCHANGED <<sources, binaries, files, outdated, command, point, reading, verdict, since, raced, kept>>

\* What a recipe writes if it comes to its end.
Product(g) ==
  LET from == IF g[1] = "soln" THEN files[<<"archobj", g[2]>>] ELSE files[<<"bin", g[2]>>]
  IN  IF g[1] = "bin" THEN Whole(source[g[2]], 0)
      ELSE IF from.state # "whole" THEN Damaged
      ELSE Whole(from.test, IF g[1] = "soln" THEN r5emu ELSE 0)

\* The shell opens, and empties, what the output of a command goes to before
\* the command runs; gcc -o does not, and leaves the old binary meanwhile.
StartRecipe ==
  /\ point = "targets" /\ todo # <<>> /\ reading = Absent
  /\ NeedsMaking(Head(todo))
  /\ reading' = Product(Head(todo))
  /\ IF Head(todo)[1] = "bin"
     THEN /\ raced' = raced \ {Head(todo)[2]} /\ kept' = kept \ {Head(todo)[2]}
          /\ UNCHANGED files
     ELSE /\ files' = [files EXCEPT ![Head(todo)] = Damaged]
          /\ UNCHANGED <<raced, kept>>
  /\ UNCHANGED <<sources, binaries, outdated, command, point, todo, verdict, since>>

\* A recipe comes to its end, and make goes on.
RecipeLeaves(content) ==
  /\ Written(content)
  /\ todo' = Tail(todo) /\ reading' = Absent
  /\ UNCHANGED <<sources, binaries, command, point, verdict, since, raced>>

EmulatorRunsOn ==
  /\ Head(todo)[1] = "soln" /\ reading.state = "whole"
  /\ <<reading.test, reading.emu>> \in Endless

FinishRecipe ==
  /\ point = "targets" /\ reading # Absent /\ ~EmulatorRunsOn
  /\ RecipeLeaves(reading)
  /\ UNCHANGED kept

\* Mutation of GiveUp: there is no timeout, only errors.
GiveUpOnError ==
  /\ point = "targets" /\ reading # Absent /\ ~EmulatorRunsOn
  /\ RecipeLeaves(Damaged)
  /\ UNCHANGED kept

\* Mutation of GiveUp: an error of the recipe is an error of make.
GiveUpStops ==
  /\ point = "targets" /\ reading # Absent
  /\ point' = "idle" /\ todo' = <<>> /\ reading' = Absent
  /\ UNCHANGED <<sources, binaries, files, outdated, command, verdict, since, raced, kept>>

\* After an error or two seconds: a warning, and touch.  A compiler that came
\* to an end before the linker leaves the binary that was there.
GiveUp ==
  /\ point = "targets" /\ reading # Absent
  /\ \/ RecipeLeaves(Damaged) /\ UNCHANGED kept
     \/ /\ Head(todo)[1] = "bin" /\ files[Head(todo)].state = "whole"
        /\ RecipeLeaves(files[Head(todo)])
        /\ kept' = kept \cup {Head(todo)[2]}

AllMade ==
  /\ point = "targets" /\ todo = <<>>
  /\ point' = IF command = "test" THEN "compare" ELSE "idle"
  /\ UNCHANGED <<sources, binaries, files, outdated, command, todo, reading, verdict, since, raced, kept>>

-----------------------------------------------------------------------------
(* run_tests.sh *)

\* What may be said of a solution: diff may also fail.
Compared(content) ==
  IF content.state = "absent" THEN {"missing"}
  ELSE IF content.state = "whole" /\ <<content.test, content.emu>> \in Correct
       THEN {"passed", "error"}
  ELSE {"failed", "error"}

RunTests ==
  /\ point = "compare"
  /\ verdict' \in [Test -> {"missing", "passed", "failed", "error"}]
  /\ \A t \in Test : verdict'[t] \in Compared(files[<<"soln", t>>])
  /\ point' = "idle"
  /\ UNCHANGED <<sources, binaries, files, outdated, command, todo, reading, since, raced, kept>>

-----------------------------------------------------------------------------
Work ==
  \/ CleanEmulator \/ CleanOutputs \/ CompileEmulator \/ LinkEmulator \/ BuildFails
  \/ UpToDate \/ StartRecipe \/ FinishRecipe \/ GiveUp \/ AllMade \/ RunTests

PipelineNext == Work \/ Command \/ Kill \/ EditEmulator \/ \E t \in Test : EditTest(t)

\* Compilers and obj_create.py end, and `timeout` ends the emulator.  The
\* programmer need not do anything.
PipelineSpec == PipelineInit /\ [][PipelineNext]_pvars /\ WF_pvars(Work)

-----------------------------------------------------------------------------
(* Properties. *)

PipelineTypeOK ==
  /\ source \in [Test -> Version] /\ emulator \in Version
  /\ {objects, r5emu} \subseteq Version \cup {NotBuilt} /\ changed \in BOOLEAN
  /\ files \in [Target -> Content] /\ outdated \subseteq Target
  /\ command \in {"none", "test", "all", "run_tests", "killed"}
  /\ point \in {"idle", "clean", "clean outputs", "emulator", "link", "targets", "compare"}
  /\ todo \in Seq(Target) /\ reading \in Content
  /\ verdict \in [Test -> {"none", "missing", "passed", "failed", "error"}]
  /\ since.source \in [Test -> Version] /\ since.emulator \in Version
  /\ raced \subseteq Test /\ kept \subseteq Test

\* A pass that `make test` reports is a pass of the test and of the emulator
\* as they were when it was started, or later: although solutions do not
\* depend on the emulator, although damaged targets count as up to date, and
\* whatever was left behind by commands before it.
PassIsEarned ==
  \A t \in Test : command = "test" /\ verdict[t] = "passed" =>
    /\ files[<<"soln", t>>].test >= since.source[t]
    /\ files[<<"soln", t>>].emu >= since.emulator

\* However commands failed or were stopped: a whole target that make does not
\* make again is of the same test as the whole target it is made from.
ChainAgrees ==
  \A t \in Test :
    LET agree(from, to) == files[<<to, t>>].state = "whole" =>
          files[<<from, t>>].state = "whole" /\ files[<<from, t>>].test = files[<<to, t>>].test
    IN  <<"archobj", t>> \notin outdated =>
          /\ agree("bin", "archobj")
          /\ <<"soln", t>> \notin outdated => agree("archobj", "soln")

\* What make takes to be up to date was made from the test as it is now, but
\* for two reasons: the test was edited while the compiler was reading it, or
\* the compiler failed on it and left the old binary.
UpToDateIsCurrent ==
  \A t \in Test \ (raced \cup kept) :
    LET current(kinds) == \A k \in kinds : <<k, t>> \notin outdated
        made(k) == files[<<k, t>>].state = "whole" => files[<<k, t>>].test = source[t]
    IN  /\ current({"bin"}) => made("bin")
        /\ current({"bin", "archobj"}) => made("archobj")
        /\ current(Kind) => made("soln")

\* Whichever steps fail or are stopped, `make test` judges every test, and
\* misses none, once it has an emulator.
EveryTestIsJudged ==
  command = "test" /\ point = "idle" /\ r5emu # NotBuilt =>
    \A t \in Test : verdict[t] \in {"passed", "failed", "error"}

\* Claimed: when `make` says "Compilation complete", a whole solution is of the
\* test as it was when the command was given, or later.  The two reasons why a
\* binary is of an older one are reasons for this too.
CompleteIsCurrent ==
  command = "all" /\ point = "idle" /\ objects # NotBuilt =>
    \A t \in Test : files[<<"soln", t>>].state = "whole" =>
      files[<<"soln", t>>].test >= since.source[t]

\* Every command ends, even if the emulator does not.
CommandsEnd == point # "idle" ~> point = "idle"
=============================================================================
