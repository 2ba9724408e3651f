------------------------------- MODULE Harness -------------------------------
(***************************************************************************)
(* The program (main.rs, main): it reads its arguments, runs the commands  *)
(* they ask for, and tells by its exit code whether everything passed.     *)
(* The scripts of the check command run one after the other (Scenarios);   *)
(* of the fuzz command only the verdict is modelled here, either one (Fuzz *)
(* models how it comes to it).  examples/offline_payment.rs is a program   *)
(* of its own, with one script and no arguments.                           *)
(***************************************************************************)
EXTENDS Scenarios, CommandLine

CONSTANTS Numbers,      \* bound: numbers among the arguments
          MaxArguments, \* bound: arguments given
          CheckLimits   \* bound: limits tried on their own

ASSUME HarnessAssumption == Numbers \cup CheckLimits \subseteq Nat /\ MaxArguments \in Nat

VARIABLES args,         \* the arguments
          read,         \* how far they are read, and what they set
          command,      \* running; "none" while they are read
          fuzzed,       \* what run_fuzz returned
          exit          \* the exit code, "none" while the program runs

vars == <<scenarioVars, args, read, command, fuzzed, exit>>

Arguments ==
  {Word(text) : text \in Commands \cup Help \cup Options \cup {"other"}}
    \cup {Number(n) : n \in Numbers}

ArgumentLists ==
  (UNION {[1 .. n -> Arguments] : n \in 0 .. MaxArguments})
    \cup {<<Word("limit"), Number(l)>> : l \in CheckLimits}

\* The holding limit of examples/offline_payment.rs.
HOLDING_LIMIT == 50000

Init ==
  /\ ScriptInit
  /\ read = NothingRead /\ fuzzed = "not run" /\ exit = "none"
  /\ \/ /\ args \in ArgumentLists /\ command = "none"
        /\ limit = 0 /\ todo = <<>>
     \/ /\ args = <<>> /\ command = "offline_payment"
        /\ limit = HOLDING_LIMIT /\ todo = <<"offline_payment">>

-----------------------------------------------------------------------------

\* One turn of the loop over the arguments.
ReadArgument ==
  /\ command = "none" /\ exit = "none" /\ read.index <= Len(args)
  /\ LET arg == args[read.index]
     IN  \/ IsOneOf(arg, Help) /\ exit' = "SUCCESS" /\ UNCHANGED read
         \/ IsOneOf(arg, Commands) /\ read' = WithCommand(args, read) /\ UNCHANGED exit
         \/ TakesValue(args, read.index) /\ read' = WithValue(args, read) /\ UNCHANGED exit
         \/ /\ ~IsOneOf(arg, Help \cup Commands) /\ ~TakesValue(args, read.index)
            /\ exit' = "FAILURE" /\ UNCHANGED read
  /\ UNCHANGED <<scenarioVars, args, command, fuzzed>>

Launch ==
  /\ command = "none" /\ exit = "none" /\ read.index > Len(args)
  /\ IF Usable(read.values)
     THEN /\ command' = read.command
          /\ limit' = read.values.limit
          /\ todo' = IF read.command \in {"check", "all"} THEN CheckScripts ELSE <<>>
          /\ UNCHANGED exit
     ELSE exit' = "FAILURE" /\ UNCHANGED <<command, limit, todo>>
  /\ UNCHANGED <<callVars, failed, report, position, held, outcome, args, read, fuzzed>>

Check ==
  /\ ScriptStep
  /\ UNCHANGED <<args, read, command, fuzzed, exit>>

\* run_fuzz, whatever the scripts before it came to.
Fuzz ==
  /\ command \in {"fuzz", "all"} /\ todo = <<>> /\ fuzzed = "not run"
  /\ fuzzed' \in {"passed", "failed"}
  /\ UNCHANGED <<scenarioVars, args, read, command, exit>>

\* Mutant: one of the two commands of all is enough.
ExitOnEither ==
  /\ command # "none" /\ exit = "none" /\ todo = <<>>
  /\ command \in {"fuzz", "all"} => fuzzed # "not run"
  /\ exit' = IF failed = 0 \/ fuzzed = "passed" THEN "SUCCESS" ELSE "FAILURE"
  /\ UNCHANGED <<scenarioVars, args, read, command, fuzzed>>

Exit ==
  /\ command # "none" /\ exit = "none" /\ todo = <<>>
  /\ command \in {"fuzz", "all"} => fuzzed # "not run"
  /\ exit' = IF failed = 0 /\ fuzzed # "failed" THEN "SUCCESS" ELSE "FAILURE"
  /\ UNCHANGED <<scenarioVars, args, read, command, fuzzed>>

Next == ReadArgument \/ Launch \/ Check \/ Fuzz \/ Exit

\* The program is one thread that runs to its end.
Spec == Init /\ [][Next]_vars /\ WF_vars(Next)

-----------------------------------------------------------------------------

\* Two scripts fund more than the lowest limit allows; the others pass under any.
Needs(name) ==
  CASE name = "defunding_round_trip" -> 3000
    [] name = "lost_device_strands_its_balance" -> 4000
    [] OTHER -> LowestLimit

\* The program comes to its end, whatever its arguments, and by then exactly the
\* scenarios it was asked to run that fund more than the holding limit have failed:
\* every other step of every script got the result the script expects (main.rs,
\* run_check; the asserts and question marks of examples/offline_payment.rs).
CheckPasses ==
  <>(/\ exit # "none"
     /\ {entry.script : entry \in {e \in Range(report) : e.verdict = "FAIL"}}
          = {name \in Range(CheckScripts) : /\ DeclaredUsable(args)
                                            /\ DeclaredCommand(args) # "fuzz"
                                            /\ Needs(name) > DeclaredValue(args, "limit")})

\* What the usage text says is to be run.
ScriptsAsked ==
  IF command = "offline_payment" THEN <<"offline_payment">>
  ELSE IF DeclaredCommand(args) \in {"check", "all"} THEN CheckScripts ELSE <<>>

ScriptsEnded == [i \in DOMAIN report |-> report[i].script]

\* "Exit code is 0 when everything passes, 1 otherwise" (main.rs, usage), from the
\* arguments to the exit code.  When the program exits, every scenario asked for has
\* been run, once and in order, and the fuzz command if it was asked for; nothing has,
\* if the arguments cannot be used.  The code is 0 exactly when help was asked for, or
\* the arguments can be used and all that ran passed: a failure is hidden neither by
\* the success of what ran after it, nor by not running something.
ExitCodeTells ==
  exit # "none" =>
    /\ ScriptsEnded = IF DeclaredUsable(args) THEN ScriptsAsked ELSE <<>>
    /\ (fuzzed # "not run") = (DeclaredUsable(args) /\ DeclaredCommand(args) \in {"fuzz", "all"})
    /\ (exit = "SUCCESS") =
         \/ AsksForHelp(args)
         \/ /\ DeclaredUsable(args)
            /\ \A i \in DOMAIN report : report[i].verdict = "PASS"
            /\ fuzzed # "failed"

\* The arguments mean what the usage text says, however they are mixed: an option
\* takes the argument after it, whatever that is; the last setting counts; the first
\* argument that makes no sense or asks for help decides (main.rs, usage and main).
ReadsArguments ==
  /\ read.index > Len(args) =>
       /\ Wrong(args) = {}
       /\ read.command = DeclaredCommand(args)
       /\ \A option \in Options : read.values[option] = DeclaredValue(args, option)
  /\ read.index <= Len(args) /\ exit # "none" =>
       /\ Wrong(args) # {}
       /\ (exit = "SUCCESS") = AsksForHelp(args)

\* "--limit must be at least 2000 cents (the scenarios pay up to 20 EUR)" (main.rs, the
\* message of the check of the limit): with such a limit no scenario fails.  False.
LowestLimitSuffices == failed = 0

=============================================================================
