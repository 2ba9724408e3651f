---------------------------- MODULE HarnessProofs ----------------------------
(***************************************************************************)
(* The command line means what its usage text says, and the exit code says *)
(* what came of it, for any number of arguments.                           *)
(*                                                                         *)
(* The loop reads from left to right and remembers nothing; the usage text *)
(* speaks of all arguments at once.  ReadInv says what the loop has read:  *)
(* everything before its position, which is never that of a value.         *)
(***************************************************************************)
EXTENDS Harness, FiniteSetTheorems, TLAPS

-----------------------------------------------------------------------------
(* Which arguments are values. *)

\* The options that stand in a row before position i.
RowBefore(given, i) == {j \in 1 .. i - 1 : \A k \in j .. i - 1 : IsOneOf(given[k], Options)}

\* They are finitely many.
LEMMA RowFinite ==
  ASSUME NEW given, NEW i \in Nat
  PROVE  IsFiniteSet(RowBefore(given, i)) /\ Cardinality(RowBefore(given, i)) \in Nat
<1>1. IsFiniteSet(1 .. i - 1)
  BY FS_Interval
<1>2. RowBefore(given, i) \subseteq 1 .. i - 1
  BY DEF RowBefore
<1> QED BY <1>1, <1>2, FS_Subset, FS_CardinalityType

\* The first argument is no value.
LEMMA FirstIsNoValue ==
  ASSUME NEW given
  PROVE  ~IsValue(given, 1)
<1>1. {j \in 1 .. 1 - 1 : \A k \in j .. 1 - 1 : IsOneOf(given[k], Options)} = {}
  OBVIOUS
<1> QED BY <1>1, FS_EmptySet DEF IsValue

\* An argument is a value exactly when the one before it is an option and no value.
LEMMA ValueFollows ==
  ASSUME NEW given, NEW i \in Nat \ {0}
  PROVE  IsValue(given, i + 1) <=> IsOneOf(given[i], Options) /\ ~IsValue(given, i)
<1> DEFINE now == RowBefore(given, i)
           next == RowBefore(given, i + 1)
<1>1. /\ IsValue(given, i) <=> Cardinality(now) % 2 = 1
      /\ IsValue(given, i + 1) <=> Cardinality(next) % 2 = 1
  BY DEF IsValue, RowBefore
<1>2. CASE IsOneOf(given[i], Options)
  <2>1. next = now \cup {i} /\ i \notin now
    BY <1>2 DEF RowBefore
  <2>2. IsFiniteSet(now) /\ Cardinality(now) \in Nat
    BY RowFinite
  <2> HIDE DEF now, next
  <2>3. Cardinality(next) = Cardinality(now) + 1
    BY <2>1, <2>2, FS_AddElement
  <2> QED BY <1>1, <1>2, <2>2, <2>3
<1>3. CASE ~IsOneOf(given[i], Options)
  <2>1. next = {}
    BY <1>3 DEF RowBefore
  <2> HIDE DEF next
  <2> QED BY <1>1, <1>3, <2>1, FS_EmptySet
<1> QED BY <1>2, <1>3

-----------------------------------------------------------------------------
(* The last setting. *)

\* A position after all others is the one that counts.
LEMMA LatestIsLast ==
  ASSUME NEW given, NEW default, NEW m \in Nat, NEW positions, positions \subseteq 1 .. m - 1
  PROVE  Latest(given, positions \cup {m}, default) = given[m]
<1> DEFINE P == positions \cup {m}
<1>1. m \in P /\ \A j \in P : j <= m
  OBVIOUS
<1>2. ASSUME NEW i \in P, \A j \in P : j <= i PROVE i = m
  BY <1>2
<1> HIDE DEF P
<1>3. (CHOOSE i \in P : \A j \in P : j <= i) = m
  BY <1>1, <1>2
<1>4. Latest(given, P, default) = given[m]
  BY <1>1, <1>3 DEF Latest
<1> QED BY <1>4 DEF P

\* The settings before position i, of the command and of an option.
CommandsBefore(given, i) ==
  {k \in 1 .. i - 1 : ~IsValue(given, k) /\ IsOneOf(given[k], Commands)}

ValuesBefore(given, option, i) ==
  {k \in 1 .. i - 1 : IsValue(given, k) /\ given[k - 1] = Word(option)}

-----------------------------------------------------------------------------
(* The invariants. *)

Args == {Word(text) : text \in Commands \cup Help \cup Options \cup {"other"}}
          \cup {Number(n) : n \in Nat}

ReadTypeOK ==
  /\ args \in Seq(Args)
  /\ read \in [index : Nat \ {0}, command : Commands, values : [Options -> Nat]]
  /\ read.index <= Len(args) + 1

\* What the loop has read is right, and the next argument is read as what it is.
ReadSoFar ==
  /\ ~IsValue(args, read.index)
  /\ \A k \in 1 .. read.index - 1 : k \notin Wrong(args)
  /\ read.command = Latest(args, CommandsBefore(args, read.index), Word("check")).word
  /\ \A option \in Options :
       read.values[option] = Latest(args, ValuesBefore(args, option, read.index),
                                    Number(Defaults[option])).number

\* Where the loop returned early, and why.
StoppedShort ==
  exit # "none" /\ read.index <= Len(args) =>
    \/ exit = "SUCCESS" /\ IsOneOf(args[read.index], Help)
    \/ /\ exit = "FAILURE"
       /\ ~IsOneOf(args[read.index], Help \cup Commands) /\ ~TakesValue(args, read.index)

ReadInv == ReadTypeOK /\ ReadSoFar /\ StoppedShort

\* A command runs once everything is read and can be used.
CommandRuns ==
  /\ fuzzed \in {"not run", "passed", "failed"}
  /\ command = "none" => todo = <<>> /\ report = <<>> /\ fuzzed = "not run"
  /\ command # "none" =>
       /\ read.index > Len(args) /\ Usable(read.values)
       /\ \/ command = read.command
          \/ command = "offline_payment" /\ read.command = "check"
       /\ command \notin {"fuzz", "all"} => fuzzed = "not run"

ScriptNames ==
  {"partial_payment_keeps_the_rest", "received_value_is_respendable",
   "refused_payment_costs_nothing", "holding_limit_checked_before_debit",
   "transfers_resist_replay_and_tampering", "defunding_round_trip",
   "lost_device_strands_its_balance", "cracked_element_counterfeits", "offline_payment"}

\* The scripts that a command runs.
ScriptsOf(name) ==
  IF name = "offline_payment" THEN <<"offline_payment">>
  ELSE IF name \in {"check", "all"} THEN CheckScripts ELSE <<>>

Entry == [script : ScriptNames, verdict : {"PASS", "FAIL"}]

\* The scripts that ended, and then those to run, are the scripts of the command, one
\* after the other; the count of those that failed is zero when none of them did.
Reported ==
  /\ report \in Seq(Entry) /\ todo \in Seq(ScriptNames) /\ failed \in Nat
  /\ failed = 0 <=> \A i \in 1 .. Len(report) : report[i].verdict = "PASS"
  /\ command # "none" =>
       /\ Len(report) + Len(todo) = Len(ScriptsOf(command))
       /\ \A i \in 1 .. Len(report) : report[i].script = ScriptsOf(command)[i]
       /\ \A i \in 1 .. Len(todo) : todo[i] = ScriptsOf(command)[Len(report) + i]

\* The exit code says what came of it, and nothing runs any more.
Exited ==
  exit # "none" =>
    /\ todo = <<>>
    /\ command \in {"fuzz", "all"} => fuzzed # "not run"
    /\ command = "none" /\ read.index > Len(args) => exit = "FAILURE" /\ ~Usable(read.values)
    /\ command # "none" => exit = IF failed = 0 /\ fuzzed # "failed" THEN "SUCCESS" ELSE "FAILURE"

RunInv == CommandRuns /\ Reported /\ Exited

-----------------------------------------------------------------------------
(* Reading. *)

\* An argument is a word or a number.
LEMMA ArgIs ==
  ASSUME ReadTypeOK, NEW i \in 1 .. Len(args)
  PROVE  /\ args[i] \in Args
         /\ IsNumber(args[i]) => args[i].number \in Nat
         /\ ~IsNumber(args[i]) => args[i] = Word(args[i].word)
<1>1. args[i] \in Args
  BY DEF ReadTypeOK
<1>2. ASSUME NEW text, args[i] = Word(text)
      PROVE  ~IsNumber(args[i]) /\ args[i] = Word(args[i].word)
  BY <1>2 DEF Word, IsNumber
<1>3. ASSUME NEW n \in Nat, args[i] = Number(n) PROVE IsNumber(args[i]) /\ args[i].number \in Nat
  BY <1>3 DEF Number, IsNumber
<1> QED BY <1>1, <1>2, <1>3 DEF Args

\* An argument asks for help, names a command or names an option, at most one of them.
LEMMA KindsApart ==
  ASSUME NEW arg
  PROVE  /\ ~(IsOneOf(arg, Help) /\ IsOneOf(arg, Commands \cup Options))
         /\ ~(IsOneOf(arg, Commands) /\ IsOneOf(arg, Options))
         /\ \A these, those : IsOneOf(arg, these \cup those)
                                <=> IsOneOf(arg, these) \/ IsOneOf(arg, those)
BY DEF IsOneOf, Help, Commands, Options, Defaults

\* A command read is the last one so far.
LEMMA CommandRead ==
  ASSUME ReadInv, read.index <= Len(args), IsOneOf(args[read.index], Commands),
         read' = WithCommand(args, read), UNCHANGED <<args, exit>>, exit = "none"
  PROVE  ReadInv'
<1> DEFINE i == read.index
<1>1. i \in Nat \ {0} /\ i \in 1 .. Len(args) /\ Len(args) \in Nat
  BY DEF ReadInv, ReadTypeOK
<1>2. /\ read'.index = i + 1 /\ read'.command = args[i].word /\ read'.values = read.values
      /\ read' \in [index : Nat \ {0}, command : Commands, values : [Options -> Nat]]
  <2>1. read \in [index : Nat \ {0}, command : Commands, values : [Options -> Nat]]
    BY DEF ReadInv, ReadTypeOK
  <2>2. args[i].word \in Commands
    BY DEF IsOneOf
  <2> DEFINE word == args[i].word
  <2>3. read' = [read EXCEPT !.index = i + 1, !.command = word]
    BY DEF WithCommand
  <2>4. i \in Nat /\ word \in Commands
    BY <1>1, <2>2
  <2> HIDE DEF i, word
  <2>5. read'.index = i + 1 /\ read'.command = word /\ read'.values = read.values
    BY <2>1, <2>3
  <2>6. /\ read'.index \in Nat \ {0} /\ read'.command \in Commands
        /\ read'.values \in [Options -> Nat]
    BY <2>1, <2>4, <2>5
  <2>7. read' = [index |-> read'.index, command |-> read'.command, values |-> read'.values]
    BY <2>1, <2>3
  <2> QED BY <2>5, <2>6, <2>7 DEF word
<1>3. ~IsValue(args, i) /\ ~IsValue(args, i + 1)
  BY <1>1, ValueFollows, KindsApart DEF ReadInv, ReadSoFar
<1>4. i \notin Wrong(args)
  BY <1>3, KindsApart DEF Wrong
<1>5. /\ CommandsBefore(args, i + 1) = CommandsBefore(args, i) \cup {i}
      /\ CommandsBefore(args, i) \subseteq 1 .. i - 1
      /\ \A option \in Options : ValuesBefore(args, option, i + 1) = ValuesBefore(args, option, i)
  BY <1>1, <1>3 DEF CommandsBefore, ValuesBefore
<1>6. Latest(args, CommandsBefore(args, i + 1), Word("check")) = args[i]
  <2> DEFINE earlier == CommandsBefore(args, i)
  <2>1. i \in Nat /\ earlier \subseteq 1 .. i - 1
    BY <1>1, <1>5
  <2> HIDE DEF i, earlier
  <2>2. Latest(args, earlier \cup {i}, Word("check")) = args[i]
    BY <2>1, LatestIsLast
  <2> QED BY <1>5, <2>2 DEF earlier
<1> HIDE DEF i
<1>7. ReadTypeOK'
  BY <1>1, <1>2 DEF ReadInv, ReadTypeOK
<1>8. ReadSoFar'
  <2>1. \A k \in 1 .. i : k \notin Wrong(args)
    BY <1>1, <1>4 DEF ReadInv, ReadSoFar, i
  <2>2. \A option \in Options :
          read.values[option] = Latest(args, ValuesBefore(args, option, i + 1),
                                       Number(Defaults[option])).number
    BY <1>5 DEF ReadInv, ReadSoFar, i
  <2> QED BY <1>1, <1>2, <1>3, <1>6, <2>1, <2>2 DEF ReadSoFar
<1>9. StoppedShort'
  BY DEF StoppedShort
<1> QED BY <1>7, <1>8, <1>9 DEF ReadInv

\* An option read takes the argument after it, and that is its last value so far.
LEMMA OptionRead ==
  ASSUME ReadInv, TakesValue(args, read.index),
         read' = WithValue(args, read), UNCHANGED <<args, exit>>, exit = "none"
  PROVE  ReadInv'
<1> DEFINE i == read.index
           o == args[i].word
           n == args[i + 1].number
<1>1. i \in Nat \ {0} /\ i \in 1 .. Len(args) /\ i + 1 \in 1 .. Len(args) /\ Len(args) \in Nat
  BY DEF ReadInv, ReadTypeOK, TakesValue
<1>2. /\ IsOneOf(args[i], Options) /\ o \in Options /\ args[i] = Word(o)
      /\ IsNumber(args[i + 1]) /\ n \in Nat
  BY <1>1, ArgIs DEF TakesValue, IsOneOf, ReadInv
<1>3. /\ read'.index = i + 2 /\ read'.command = read.command
      /\ read'.values = [read.values EXCEPT ![o] = n]
      /\ read' \in [index : Nat \ {0}, command : Commands, values : [Options -> Nat]]
  <2>1. read \in [index : Nat \ {0}, command : Commands, values : [Options -> Nat]]
    BY DEF ReadInv, ReadTypeOK
  <2>2. read' = [read EXCEPT !.index = i + 2, !.values[o] = n]
    BY DEF WithValue
  <2>3. i \in Nat /\ o \in Options /\ n \in Nat
    BY <1>1, <1>2
  <2> HIDE DEF i, o, n
  <2>4. /\ read'.index = i + 2 /\ read'.command = read.command
        /\ read'.values = [read.values EXCEPT ![o] = n]
    BY <2>1, <2>2
  <2>5. /\ read'.index \in Nat \ {0} /\ read'.command \in Commands
        /\ read'.values \in [Options -> Nat]
    BY <2>1, <2>3, <2>4
  <2>6. read' = [index |-> read'.index, command |-> read'.command, values |-> read'.values]
    BY <2>1, <2>2
  <2> QED BY <2>4, <2>5, <2>6
<1>4. ~IsValue(args, i) /\ IsValue(args, i + 1) /\ ~IsValue(args, i + 2)
  <2>1. ~IsValue(args, i)
    BY DEF ReadInv, ReadSoFar
  <2>2. IsValue(args, i + 1)
    BY <1>1, <1>2, <2>1, ValueFollows
  <2>3. ~IsValue(args, i + 1 + 1)
    BY <1>1, <1>2, ValueFollows DEF IsOneOf
  <2>4. i + 1 + 1 = i + 2
    BY <1>1
  <2> QED BY <2>1, <2>2, <2>3, <2>4
<1>5. i \notin Wrong(args) /\ i + 1 \notin Wrong(args)
  BY <1>1, <1>2, <1>4, KindsApart DEF Wrong, TakesValue
<1>6. CommandsBefore(args, i + 2) = CommandsBefore(args, i)
  BY <1>1, <1>2, <1>4, KindsApart DEF CommandsBefore
<1>7. ASSUME NEW option \in Options
      PROVE  /\ ValuesBefore(args, option, i + 2)
                   = IF option = o THEN ValuesBefore(args, option, i) \cup {i + 1}
                                   ELSE ValuesBefore(args, option, i)
             /\ ValuesBefore(args, option, i) \subseteq 1 .. (i + 1) - 1
  <2>1. Word(option) = Word(o) <=> option = o
    BY DEF Word
  <2>2. 1 .. (i + 2) - 1 = (1 .. i - 1) \cup {i, i + 1}
    BY <1>1
  <2>3. args[(i + 1) - 1] = Word(o)
    BY <1>1, <1>2
  <2> HIDE DEF i, o
  <2> QED BY <1>1, <1>4, <2>1, <2>2, <2>3 DEF ValuesBefore
<1> HIDE DEF i, o, n
<1>8. ReadTypeOK'
  BY <1>1, <1>3 DEF ReadInv, ReadTypeOK
<1>9. ReadSoFar'
  <2>1. \A k \in 1 .. (i + 2) - 1 : k \notin Wrong(args)
    BY <1>1, <1>5 DEF ReadInv, ReadSoFar, i
  <2>2. read.command = Latest(args, CommandsBefore(args, i + 2), Word("check")).word
    BY <1>6 DEF ReadInv, ReadSoFar, i
  <2>3. ASSUME NEW option \in Options
        PROVE  read'.values[option] = Latest(args, ValuesBefore(args, option, i + 2),
                                             Number(Defaults[option])).number
    <3>1. read.values \in [Options -> Nat]
      BY DEF ReadInv, ReadTypeOK
    <3>2. CASE option = o
      <4> DEFINE earlier == ValuesBefore(args, option, i)
                 m == i + 1
      <4>1. m \in Nat /\ earlier \subseteq 1 .. m - 1
        <5>1. m \in Nat
          BY <1>1
        <5>2. earlier \subseteq 1 .. (i + 1) - 1
          BY <1>7
        <5> QED BY <5>1, <5>2
      <4> HIDE DEF earlier, m
      <4>2. Latest(args, earlier \cup {m}, Number(Defaults[option])) = args[m]
        BY <4>1, LatestIsLast
      <4>3. Latest(args, ValuesBefore(args, option, i) \cup {i + 1}, Number(Defaults[option]))
              = args[i + 1]
        BY <4>2 DEF earlier, m
      <4> QED BY <1>2, <1>3, <1>7, <3>1, <3>2, <4>3 DEF n
    <3>3. CASE option # o
      <4>1. read'.values[option] = read.values[option]
        BY <1>3, <3>1, <3>3
      <4>2. ValuesBefore(args, option, i + 2) = ValuesBefore(args, option, i)
        BY <1>7, <3>3
      <4> QED BY <4>1, <4>2 DEF ReadInv, ReadSoFar, i
    <3> QED BY <3>2, <3>3
  <2> QED BY <1>3, <1>4, <2>1, <2>2, <2>3 DEF ReadSoFar
<1>10. StoppedShort'
  BY DEF StoppedShort
<1> QED BY <1>8, <1>9, <1>10 DEF ReadInv

\* One turn of the loop.
LEMMA ReadArgumentKeeps ==
  ASSUME ReadInv, ReadArgument
  PROVE  ReadInv'
<1> DEFINE arg == args[read.index]
<1>1. UNCHANGED args /\ exit = "none" /\ read.index <= Len(args)
  BY DEF ReadArgument
<1>2. CASE IsOneOf(arg, Commands) /\ read' = WithCommand(args, read) /\ UNCHANGED exit
  BY <1>1, <1>2, CommandRead
<1>3. CASE TakesValue(args, read.index) /\ read' = WithValue(args, read) /\ UNCHANGED exit
  BY <1>1, <1>3, OptionRead
<1>4. CASE UNCHANGED read /\ \/ IsOneOf(arg, Help) /\ exit' = "SUCCESS"
                             \/ /\ exit' = "FAILURE"
                                /\ ~IsOneOf(arg, Help \cup Commands)
                                /\ ~TakesValue(args, read.index)
  <2>1. ReadTypeOK' /\ ReadSoFar'
    BY <1>1, <1>4 DEF ReadInv, ReadTypeOK, ReadSoFar
  <2>2. StoppedShort'
    BY <1>1, <1>4 DEF StoppedShort
  <2> QED BY <2>1, <2>2 DEF ReadInv
<1> QED BY <1>2, <1>3, <1>4 DEF ReadArgument

-----------------------------------------------------------------------------
(* Running. *)

\* A step of a script leaves the report alone, until the script has come to its end.
LEMMA ScriptStepIs ==
  ASSUME ScriptStep
  PROVE  NextScript \/ UNCHANGED <<todo, failed, report>>
<1>1. CASE Start \/ Run
  BY <1>1 DEF Start, Run, scriptVars
<1>2. CASE \/ OpenOnly \/ EnrolOnly \/ Returned \/ RequestOnly \/ ReplacePayee \/ PayOnly
           \/ ReceiveOnly \/ OrderOnly \/ CashOnly \/ CrackOnly \/ Drop \/ EnsureOnly
  <2>1. \E asExpected : Expect(asExpected)
    BY <1>2 DEF OpenOnly, EnrolOnly, Returned, RequestOnly, ReplacePayee, PayOnly,
                ReceiveOnly, OrderOnly, CashOnly, CrackOnly, Drop, EnsureOnly
  <2> QED BY <2>1 DEF Expect
<1> QED BY <1>1, <1>2 DEF ScriptStep

\* A command has finitely many scripts, each with its name.
LEMMA ScriptsAre ==
  ASSUME NEW name
  PROVE  ScriptsOf(name) \in Seq(ScriptNames)
<1>1. CheckScripts \in Seq(ScriptNames)
  BY DEF CheckScripts, ScriptNames
<1>2. <<"offline_payment">> \in Seq(ScriptNames) /\ <<>> \in Seq(ScriptNames)
  BY DEF ScriptNames
<1> QED BY <1>1, <1>2 DEF ScriptsOf

\* A script that ends moves from the scripts to run to those that ended, with its verdict.
LEMMA NextScriptReported ==
  ASSUME Reported, NextScript, UNCHANGED command
  PROVE  Reported'
<1> DEFINE verdict == IF outcome = "FAIL" THEN "FAIL" ELSE "PASS"
           entry == [script |-> todo[1], verdict |-> verdict]
           n == Len(report)
<1>1. /\ todo \in Seq(ScriptNames) /\ todo # <<>> /\ report \in Seq(Entry) /\ failed \in Nat
      /\ todo' = Tail(todo)
      /\ failed' = IF verdict = "FAIL" THEN failed + 1 ELSE failed
      /\ verdict \in {"PASS", "FAIL"}
  BY DEF Reported, NextScript
<1>2. report' = Append(report, entry)
  BY <1>1 DEF NextScript
<1>3. entry \in Entry /\ entry.script = todo[1] /\ entry.verdict = verdict
  BY <1>1 DEF Entry
<1> HIDE DEF verdict, entry
<1>4. /\ report' \in Seq(Entry) /\ Len(report') = n + 1 /\ n \in Nat
      /\ report'[n + 1] = entry /\ \A i \in 1 .. n : report'[i] = report[i]
  BY <1>1, <1>2, <1>3
<1>5. /\ todo' \in Seq(ScriptNames) /\ Len(todo') = Len(todo) - 1 /\ Len(todo) \in Nat \ {0}
      /\ \A i \in 1 .. Len(todo') : todo'[i] = todo[i + 1]
  BY <1>1
<1> HIDE DEF n
<1>6. failed' \in Nat /\ (failed' = 0 <=> \A i \in 1 .. Len(report') : report'[i].verdict = "PASS")
  <2>1. failed = 0 <=> \A i \in 1 .. n : report[i].verdict = "PASS"
    BY DEF Reported, n
  <2>2. CASE verdict = "FAIL"
    <3>1. failed' \in Nat /\ failed' # 0
      BY <1>1, <2>2
    <3>2. n + 1 \in 1 .. Len(report') /\ report'[n + 1].verdict # "PASS"
      BY <1>3, <1>4, <2>2
    <3> QED BY <3>1, <3>2
  <2>3. CASE verdict = "PASS"
    <3>1. failed' = failed
      BY <1>1, <2>3
    <3>2. 1 .. Len(report') = (1 .. n) \cup {n + 1} /\ report'[n + 1].verdict = "PASS"
      BY <1>3, <1>4, <2>3
    <3> QED BY <1>1, <1>4, <2>1, <3>1, <3>2
  <2> QED BY <1>1, <2>2, <2>3
<1>7. ASSUME command # "none"
      PROVE  /\ Len(report') + Len(todo') = Len(ScriptsOf(command))
             /\ \A i \in 1 .. Len(report') : report'[i].script = ScriptsOf(command)[i]
             /\ \A i \in 1 .. Len(todo') : todo'[i] = ScriptsOf(command)[Len(report') + i]
  <2> DEFINE scripts == ScriptsOf(command)
  <2>1. /\ \A i \in 1 .. n : report[i].script = scripts[i]
        /\ \A i \in 1 .. Len(todo) : todo[i] = scripts[n + i]
    BY <1>7 DEF Reported, n
  <2>2. n + Len(todo) = Len(scripts)
    BY <1>7 DEF Reported, n
  <2> HIDE DEF scripts
  <2>3. Len(report') + Len(todo') = Len(scripts)
    <3>1. Len(report') = n + 1 /\ n \in Nat
      BY <1>4
    <3>2. Len(todo') = Len(todo) - 1 /\ Len(todo) \in Nat
      BY <1>5
    <3> QED BY <2>2, <3>1, <3>2
  <2>4. report'[n + 1].script = scripts[n + 1]
    BY <1>3, <1>4, <1>5, <2>1
  <2>5. \A i \in 1 .. Len(report') : report'[i].script = scripts[i]
    BY <1>4, <2>1, <2>4
  <2>6. ASSUME NEW i \in 1 .. Len(todo')
        PROVE  todo'[i] = scripts[Len(report') + i]
    <3>1. i + 1 \in 1 .. Len(todo) /\ todo'[i] = todo[i + 1]
      BY <1>5
    <3>2. todo[i + 1] = scripts[n + (i + 1)]
      BY <2>1, <3>1
    <3>3. n + (i + 1) = Len(report') + i
      BY <1>4
    <3> QED BY <3>1, <3>2, <3>3
  <2> QED BY <2>3, <2>5, <2>6 DEF scripts
<1> QED BY <1>4, <1>5, <1>6, <1>7 DEF Reported

HarnessInv == ReadInv /\ RunInv

\* Before the first argument.
LEMMA InitHarness == Init => HarnessInv
<1> SUFFICES ASSUME Init PROVE HarnessInv
  OBVIOUS
<1>1. failed = 0 /\ report = <<>>
  BY DEF Init, ScriptInit
<1>2. /\ read = NothingRead /\ exit = "none" /\ fuzzed = "not run"
      /\ \/ command = "none" /\ todo = <<>>
         \/ args = <<>> /\ command = "offline_payment" /\ todo = <<"offline_payment">>
  BY DEF Init
<1>3. args \in Seq(Args) /\ Len(args) \in Nat
  <2>1. Arguments \subseteq Args
    BY HarnessAssumption DEF Arguments, Args
  <2>2. CASE args = <<>>
    BY <2>2
  <2>3. ASSUME NEW n \in 0 .. MaxArguments, args \in [1 .. n -> Arguments]
        PROVE  args \in Seq(Args) /\ Len(args) \in Nat
    BY <2>1, <2>3, HarnessAssumption
  <2>4. ASSUME NEW l \in CheckLimits, args = <<Word("limit"), Number(l)>>
        PROVE  args \in Seq(Args) /\ Len(args) \in Nat
    <3>1. Word("limit") \in Args
      BY DEF Args, Options, Defaults
    <3>2. Number(l) \in Args
      BY HarnessAssumption DEF Args
    <3> QED BY <2>4, <3>1, <3>2
  <2>5. args = <<>> \/ args \in ArgumentLists
    BY DEF Init
  <2> QED BY <2>2, <2>3, <2>4, <2>5 DEF ArgumentLists
<1>4. /\ read.index = 1 /\ read.command = "check" /\ read.values = Defaults
      /\ Defaults \in [Options -> Nat]
      /\ read \in [index : Nat \ {0}, command : Commands, values : [Options -> Nat]]
  <2>1. Defaults \in [Options -> Nat]
    BY DEF Options, Defaults
  <2>2. "check" \in Commands
    BY DEF Commands
  <2>3. read.index = 1 /\ read.command = "check" /\ read.values = Defaults
    BY <1>2 DEF NothingRead
  <2>4. read = [index |-> 1, command |-> "check", values |-> Defaults]
    BY <1>2 DEF NothingRead
  <2> QED BY <2>1, <2>2, <2>3, <2>4
<1>5. ReadTypeOK
  BY <1>3, <1>4 DEF ReadTypeOK
<1>6. ReadSoFar
  <2>1. ~IsValue(args, read.index) /\ 1 .. read.index - 1 = {}
    BY <1>4, FirstIsNoValue
  <2>2. CommandsBefore(args, read.index) = {}
    BY <2>1 DEF CommandsBefore
  <2>3. \A option \in Options : ValuesBefore(args, option, read.index) = {}
    BY <2>1 DEF ValuesBefore
  <2>4. read.command = Latest(args, CommandsBefore(args, read.index), Word("check")).word
    BY <1>4, <2>2 DEF Latest, Word
  <2>5. ASSUME NEW option \in Options
        PROVE  read.values[option] = Latest(args, ValuesBefore(args, option, read.index),
                                            Number(Defaults[option])).number
    BY <1>4, <2>3 DEF Latest, Number
  <2> QED BY <2>1, <2>4, <2>5 DEF ReadSoFar
<1>7. StoppedShort
  BY <1>2 DEF StoppedShort
<1>8. Usable(read.values)
  BY <1>4 DEF Usable, Defaults, LowestLimit
<1>9. CommandRuns
  <2>1. CASE command = "none"
    BY <1>2, <1>1, <2>1 DEF CommandRuns
  <2>2. CASE command # "none"
    <3>1. args = <<>> /\ command = "offline_payment" /\ read.command = "check"
      BY <1>2, <1>4, <2>2
    <3>2. read.index > Len(args)
      BY <1>4, <3>1
    <3> QED BY <1>2, <1>8, <3>1, <3>2 DEF CommandRuns
  <2> QED BY <2>1, <2>2
<1>10. Exited
  BY <1>2 DEF Exited
<1>11. Reported
  <2>1. report \in Seq(Entry) /\ Len(report) = 0 /\ failed = 0
    BY <1>1
  <2>2. CASE command = "none" /\ todo = <<>>
    BY <2>1, <2>2 DEF Reported
  <2>3. CASE command = "offline_payment" /\ todo = <<"offline_payment">>
    <3>1. todo = ScriptsOf(command)
      BY <2>3 DEF ScriptsOf
    <3>2. todo \in Seq(ScriptNames) /\ Len(todo) \in Nat
      BY <3>1, ScriptsAre
    <3> QED BY <2>1, <3>1, <3>2 DEF Reported
  <2> QED BY <1>2, <2>2, <2>3
<1> QED BY <1>5, <1>6, <1>7, <1>9, <1>10, <1>11 DEF HarnessInv, ReadInv, RunInv

\* Every step keeps the invariant.
LEMMA NextHarness ==
  ASSUME HarnessInv, [Next]_vars
  PROVE  HarnessInv'
<1> USE DEF HarnessInv
<1>1. CASE ReadArgument
  <2>1. ReadInv'
    BY <1>1, ReadArgumentKeeps
  <2>2. /\ command = "none" /\ exit = "none"
        /\ UNCHANGED <<args, todo, failed, report, command, fuzzed>>
    BY <1>1 DEF ReadArgument, scenarioVars, scriptVars
  <2>3. CommandRuns'
    BY <2>2 DEF RunInv, CommandRuns
  <2>4. ~(exit' # "none" /\ read'.index > Len(args))
    <3>1. exit' # "none" => read' = read
      BY <1>1 DEF ReadArgument
    <3>2. read.index \in Nat /\ Len(args) \in Nat /\ read.index <= Len(args)
      BY <1>1 DEF ReadInv, ReadTypeOK, ReadArgument
    <3> QED BY <3>1, <3>2
  <2>5. Exited'
    BY <2>2, <2>4 DEF RunInv, CommandRuns, Exited
  <2>6. Reported'
    BY <2>2 DEF RunInv, Reported
  <2> QED BY <2>1, <2>3, <2>5, <2>6 DEF RunInv
<1>2. CASE Launch
  <2>1. /\ UNCHANGED <<args, read, failed, report, fuzzed>> /\ command = "none" /\ exit = "none"
        /\ read.index > Len(args)
    BY <1>2 DEF Launch
  <2>2. /\ report = <<>> /\ fuzzed = "not run" /\ todo = <<>> /\ read.command \in Commands
    BY <2>1 DEF RunInv, CommandRuns, ReadInv, ReadTypeOK
  <2>3. ReadTypeOK' /\ ReadSoFar'
    BY <2>1 DEF ReadInv, ReadTypeOK, ReadSoFar
  <2>4. read.index \in Nat /\ Len(args) \in Nat
    BY DEF ReadInv, ReadTypeOK
  <2>5. StoppedShort'
    BY <2>1, <2>4 DEF StoppedShort
  <2>6. CASE Usable(read.values)
    <3>1. /\ command' = read.command /\ exit' = exit
          /\ todo' = IF read.command \in {"check", "all"} THEN CheckScripts ELSE <<>>
      BY <1>2, <2>6 DEF Launch
    <3>2. todo' = ScriptsOf(command')
      BY <2>2, <3>1 DEF ScriptsOf, Commands
    <3>3. Reported'
      <4>1. todo' \in Seq(ScriptNames)
        BY <3>2, ScriptsAre
      <4>2. Len(report') = 0
        BY <2>1, <2>2
      <4>3. Len(todo') \in Nat
        BY <4>1
      <4> QED BY <2>1, <3>2, <4>1, <4>2, <4>3 DEF RunInv, Reported
    <3> QED BY <2>1, <2>2, <2>3, <2>5, <2>6, <3>1, <3>3
            DEF ReadInv, RunInv, CommandRuns, Exited, Commands
  <2>7. CASE ~Usable(read.values)
    <3>1. exit' = "FAILURE" /\ UNCHANGED <<command, todo>>
      BY <1>2, <2>7 DEF Launch
    <3>2. Reported'
      BY <2>1, <3>1 DEF RunInv, Reported
    <3> QED BY <2>1, <2>2, <2>3, <2>5, <2>7, <3>1, <3>2 DEF ReadInv, RunInv, CommandRuns, Exited
  <2> QED BY <2>6, <2>7
<1>3. CASE Check
  <2>1. UNCHANGED <<args, read, command, fuzzed, exit>> /\ ScriptStep
    BY <1>3 DEF Check
  <2>2. NextScript \/ UNCHANGED <<todo, failed, report>>
    BY <2>1, ScriptStepIs
  <2>3. todo = <<>> => UNCHANGED <<todo, failed, report>>
    BY <2>2 DEF NextScript
  <2>4. ReadInv'
    BY <2>1 DEF ReadInv, ReadTypeOK, ReadSoFar, StoppedShort
  <2>5. CommandRuns'
    BY <2>1, <2>3 DEF RunInv, CommandRuns
  <2>6. Exited'
    BY <2>1, <2>3 DEF RunInv, Exited
  <2>7. Reported'
    <3>1. CASE NextScript
      BY <2>1, <3>1, NextScriptReported DEF RunInv
    <3>2. CASE UNCHANGED <<todo, failed, report>>
      BY <2>1, <3>2 DEF RunInv, Reported
    <3> QED BY <2>2, <3>1, <3>2
  <2> QED BY <2>4, <2>5, <2>6, <2>7 DEF RunInv
<1>4. CASE Fuzz
  <2>1. /\ UNCHANGED <<args, read, command, exit, todo, failed, report>>
        /\ command \in {"fuzz", "all"} /\ fuzzed = "not run" /\ fuzzed' \in {"passed", "failed"}
    BY <1>4 DEF Fuzz, scenarioVars, scriptVars
  <2>2. ReadInv'
    BY <2>1 DEF ReadInv, ReadTypeOK, ReadSoFar, StoppedShort
  <2>3. CommandRuns'
    BY <2>1 DEF RunInv, CommandRuns
  <2>4. exit = "none"
    BY <2>1 DEF RunInv, Exited
  <2>5. Exited'
    BY <2>1, <2>4 DEF Exited
  <2>6. Reported'
    BY <2>1 DEF RunInv, Reported
  <2> QED BY <2>2, <2>3, <2>5, <2>6 DEF RunInv
<1>5. CASE Exit
  <2>1. /\ UNCHANGED <<args, read, command, todo, failed, report, fuzzed>>
        /\ command # "none" /\ exit = "none" /\ todo = <<>>
        /\ command \in {"fuzz", "all"} => fuzzed # "not run"
        /\ exit' = IF failed = 0 /\ fuzzed # "failed" THEN "SUCCESS" ELSE "FAILURE"
    BY <1>5 DEF Exit, scenarioVars, scriptVars
  <2>2. read.index > Len(args)
    BY <2>1 DEF RunInv, CommandRuns
  <2>3. read.index \in Nat /\ Len(args) \in Nat
    BY DEF ReadInv, ReadTypeOK
  <2>4. StoppedShort'
    <3>1. read' = read /\ args' = args
      BY <2>1
    <3>2. ~(read.index <= Len(args))
      BY <2>2, <2>3
    <3> QED BY <3>1, <3>2 DEF StoppedShort
  <2>5. ReadInv'
    BY <2>1, <2>4 DEF ReadInv, ReadTypeOK, ReadSoFar
  <2>6. RunInv'
    BY <2>1 DEF RunInv, CommandRuns, Reported, Exited
  <2> QED BY <2>5, <2>6
<1>6. CASE UNCHANGED vars
  <2>1. UNCHANGED <<args, read, command, fuzzed, exit, todo, failed, report>>
    BY <1>6 DEF vars, scenarioVars, scriptVars
  <2> QED BY <2>1 DEF ReadInv, ReadTypeOK, ReadSoFar, StoppedShort, RunInv, CommandRuns, Reported,
                   Exited
<1> QED BY <1>1, <1>2, <1>3, <1>4, <1>5, <1>6 DEF Next

-----------------------------------------------------------------------------
(* What follows. *)

\* Once everything is read, nothing was wrong and everything counts.
LEMMA AllRead ==
  ASSUME ReadInv, read.index > Len(args)
  PROVE  /\ Wrong(args) = {}
         /\ read.command = DeclaredCommand(args)
         /\ \A option \in Options : read.values[option] = DeclaredValue(args, option)
<1>1. read.index = Len(args) + 1 /\ Len(args) \in Nat /\ 1 .. read.index - 1 = DOMAIN args
  BY DEF ReadInv, ReadTypeOK
<1>2. Wrong(args) = {}
  <2>1. \A k \in DOMAIN args : k \notin Wrong(args)
    BY <1>1 DEF ReadInv, ReadSoFar
  <2>2. Wrong(args) \subseteq DOMAIN args
    BY DEF Wrong
  <2> QED BY <2>1, <2>2
<1>3. read.command = DeclaredCommand(args)
  BY <1>1 DEF ReadInv, ReadSoFar, CommandsBefore, DeclaredCommand
<1>4. ASSUME NEW option \in Options PROVE read.values[option] = DeclaredValue(args, option)
  BY <1>1 DEF ReadInv, ReadSoFar, ValuesBefore, DeclaredValue
<1> QED BY <1>2, <1>3, <1>4

\* A word that asks for help, where it is no value, is wrong.
LEMMA HelpStops ==
  ASSUME NEW i \in DOMAIN args, IsOneOf(args[i], Help), ~IsValue(args, i)
  PROVE  i \in Wrong(args)
BY KindsApart DEF Wrong

\* Where the loop returned early something is wrong, or help is asked for, and the first
\* of these decided.
LEMMA FirstWrongDecides ==
  ASSUME ReadInv, read.index <= Len(args), exit # "none"
  PROVE  Wrong(args) # {} /\ (exit = "SUCCESS") = AsksForHelp(args)
<1> DEFINE i == read.index
<1>1. /\ i \in Nat \ {0} /\ Len(args) \in Nat /\ i \in DOMAIN args /\ DOMAIN args = 1 .. Len(args)
      /\ ~IsValue(args, i)
  BY DEF ReadInv, ReadTypeOK, ReadSoFar
<1>2. ASSUME NEW j \in Wrong(args) PROVE j \in DOMAIN args /\ i <= j
  <2>1. j \in 1 .. Len(args)
    BY <1>1 DEF Wrong
  <2>2. j \notin 1 .. i - 1
    BY DEF ReadInv, ReadSoFar
  <2> QED BY <1>1, <2>1, <2>2
<1>3. CASE exit = "SUCCESS" /\ IsOneOf(args[i], Help)
  <2>1. i \in Wrong(args)
    BY <1>1, <1>3, HelpStops
  <2>2. AsksForHelp(args)
    BY <1>1, <1>2, <1>3 DEF AsksForHelp
  <2> QED BY <1>3, <2>1, <2>2
<1>4. CASE exit = "FAILURE" /\ ~IsOneOf(args[i], Help \cup Commands) /\ ~TakesValue(args, i)
  <2>1. ~IsOneOf(args[i], Help) /\ ~IsOneOf(args[i], Commands)
    BY <1>4, KindsApart
  <2>2. CASE i \in Wrong(args)
    <3>1. ASSUME NEW h \in DOMAIN args, IsOneOf(args[h], Help), ~IsValue(args, h),
                 \A j \in Wrong(args) : h <= j
          PROVE  FALSE
      <4>1. h \in Wrong(args)
        BY <3>1, HelpStops
      <4>2. h = i
        BY <1>1, <1>2, <2>2, <3>1, <4>1
      <4> QED BY <2>1, <3>1, <4>2
    <3> QED BY <1>4, <2>2, <3>1 DEF AsksForHelp
  <2>3. CASE i \notin Wrong(args)
    <3>1. IsOneOf(args[i], Options) /\ i # Len(args)
      BY <1>1, <2>1, <2>3, KindsApart DEF Wrong
    <3>2. i + 1 \in DOMAIN args /\ ~IsNumber(args[i + 1])
      BY <1>1, <1>4, <3>1 DEF TakesValue
    <3>3. IsValue(args, i + 1)
      BY <1>1, <3>1, ValueFollows
    <3>4. i + 1 \in Wrong(args)
      BY <3>2, <3>3 DEF Wrong
    <3>5. ASSUME NEW h \in DOMAIN args, IsOneOf(args[h], Help), ~IsValue(args, h),
                 \A j \in Wrong(args) : h <= j
          PROVE  FALSE
      <4>1. h \in Wrong(args)
        BY <3>5, HelpStops
      <4>2. h = i \/ h = i + 1
        BY <1>1, <1>2, <3>4, <3>5, <4>1
      <4> QED BY <2>1, <3>3, <3>5, <4>2
    <3> QED BY <1>4, <3>4, <3>5 DEF AsksForHelp
  <2> QED BY <2>2, <2>3
<1> QED BY <1>3, <1>4 DEF ReadInv, StoppedShort

\* The arguments mean what the usage text says, however many there are and however they
\* are mixed (main.rs, usage and the loop of main).
THEOREM ArgumentsReadAsDeclared == Spec => []ReadsArguments
<1>1. HarnessInv => ReadsArguments
  BY AllRead, FirstWrongDecides DEF HarnessInv, ReadsArguments
<1> QED BY <1>1, InitHarness, NextHarness, PTL DEF Spec

\* Once no script is left to run, those that ended are those of the command, in order.
LEMMA AllEnded ==
  ASSUME Reported, command # "none", todo = <<>>
  PROVE  ScriptsEnded = ScriptsOf(command)
<1> DEFINE scripts == ScriptsOf(command)
<1>1. scripts \in Seq(ScriptNames)
  BY ScriptsAre
<1>2. /\ report \in Seq(Entry) /\ Len(report) = Len(scripts)
      /\ \A i \in 1 .. Len(report) : report[i].script = scripts[i]
  <2>1. /\ Len(report) + Len(todo) = Len(scripts) /\ report \in Seq(Entry)
        /\ \A i \in 1 .. Len(report) : report[i].script = scripts[i]
    BY DEF Reported
  <2> QED BY <1>1, <2>1
<1> HIDE DEF scripts
<1>3. DOMAIN report = 1 .. Len(scripts) /\ scripts = [i \in 1 .. Len(scripts) |-> scripts[i]]
  BY <1>1, <1>2
<1>4. ScriptsEnded = [i \in 1 .. Len(scripts) |-> scripts[i]]
  BY <1>2, <1>3 DEF ScriptsEnded
<1> QED BY <1>3, <1>4 DEF scripts

\* "Exit code is 0 when everything passes, 1 otherwise" (main.rs, usage), for any
\* arguments and whatever the scripts and the fuzz command come to: what was asked for
\* has been run, all of it and nothing else, and the code says whether all of it passed.
THEOREM ExitCodeIsTold == Spec => []ExitCodeTells
<1>1. ASSUME HarnessInv, exit # "none" PROVE ExitCodeTells
  <2>1. read.index \in Nat /\ Len(args) \in Nat
    BY <1>1 DEF HarnessInv, ReadInv, ReadTypeOK
  <2>2. CommandRuns /\ Reported /\ Exited /\ read.command \in Commands
    BY <1>1 DEF HarnessInv, RunInv, ReadInv, ReadTypeOK
  <2>3. command = "none" => ScriptsEnded = <<>> /\ fuzzed = "not run"
    <3>1. command = "none" => report = <<>> /\ fuzzed = "not run"
      BY <2>2 DEF CommandRuns
    <3>2. report = <<>> => ScriptsEnded = <<>>
      BY DEF ScriptsEnded
    <3> QED BY <3>1, <3>2
  <2>4. CASE read.index <= Len(args)
    <3>1. command = "none"
      <4>1. command # "none" => read.index > Len(args)
        BY <2>2 DEF CommandRuns
      <4> QED BY <2>1, <2>4, <4>1
    <3> QED BY <1>1, <2>3, <2>4, <3>1, FirstWrongDecides
            DEF HarnessInv, ExitCodeTells, DeclaredUsable
  <2>5. CASE read.index > Len(args)
    <3>1. /\ Wrong(args) = {}
          /\ read.command = DeclaredCommand(args)
          /\ \A option \in Options : read.values[option] = DeclaredValue(args, option)
      BY <1>1, <2>5, AllRead DEF HarnessInv
    <3>2. ~AsksForHelp(args)
      BY <3>1, HelpStops DEF AsksForHelp
    <3>3. {"key_bits", "limit", "devices"} \subseteq Options
      BY DEF Options, Defaults
    <3>4. Usable(read.values) <=> DeclaredUsable(args)
      BY <3>1, <3>3 DEF Usable, DeclaredUsable
    <3>5. CASE command = "none"
      <4>1. exit = "FAILURE" /\ ~DeclaredUsable(args)
        BY <1>1, <2>2, <2>5, <3>4, <3>5 DEF Exited
      <4> QED BY <2>3, <3>2, <3>5, <4>1 DEF ExitCodeTells
    <3>6. CASE command # "none"
      <4>1. /\ DeclaredUsable(args) /\ fuzzed \in {"not run", "passed", "failed"} /\ todo = <<>>
            /\ exit = IF failed = 0 /\ fuzzed # "failed" THEN "SUCCESS" ELSE "FAILURE"
        BY <1>1, <2>2, <3>4, <3>6 DEF CommandRuns, Exited
      <4>2. DeclaredCommand(args) \notin {"fuzz", "all"} => fuzzed = "not run"
        BY <2>2, <3>1, <3>6 DEF CommandRuns
      <4>3. DeclaredCommand(args) \in {"fuzz", "all"} => fuzzed # "not run"
        BY <1>1, <2>2, <3>1, <3>6 DEF CommandRuns, Exited
      <4>4. ScriptsEnded = ScriptsOf(command)
        BY <2>2, <3>6, <4>1, AllEnded
      <4>5. ScriptsOf(command) = ScriptsAsked
        BY <2>2, <3>1, <3>6 DEF CommandRuns, ScriptsOf, ScriptsAsked
      <4>6. failed = 0 <=> \A i \in DOMAIN report : report[i].verdict = "PASS"
        <5>1. DOMAIN report = 1 .. Len(report)
          BY <2>2 DEF Reported
        <5> QED BY <2>2, <5>1 DEF Reported
      <4> QED BY <3>2, <4>1, <4>2, <4>3, <4>4, <4>5, <4>6 DEF ExitCodeTells
    <3> QED BY <3>5, <3>6
  <2> QED BY <2>1, <2>4, <2>5
<1>2. HarnessInv => ExitCodeTells
  BY <1>1 DEF ExitCodeTells
<1> QED BY <1>2, InitHarness, NextHarness, PTL DEF Spec

=============================================================================
