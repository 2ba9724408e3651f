----------------------------- MODULE CommandLine -----------------------------
(***************************************************************************)
(* The arguments of the harness (main.rs, main), and what reading one or   *)
(* two of them changes.                                                    *)
(* A word stands for its text, --key-bits for key_bits; a number stands    *)
(* for a text that parses as that u64.                                     *)
(***************************************************************************)
EXTENDS Integers, Sequences, FiniteSets

Word(text) == [word |-> text]

Number(n) == [number |-> n]

IsNumber(arg) == "number" \in DOMAIN arg

IsOneOf(arg, texts) == ~IsNumber(arg) /\ arg.word \in texts

Commands == {"check", "fuzz", "all"}

Help == {"-h", "--help"}

Defaults == [seed |-> 2026, key_bits |-> 2048, limit |-> 50000, devices |-> 6, ops |-> 400]

Options == DOMAIN Defaults

-----------------------------------------------------------------------------
(* Reading: the position in the arguments, and what they set so far.       *)

NothingRead == [index |-> 1, command |-> "check", values |-> Defaults]

WithCommand(args, read) ==
  [read EXCEPT !.index = @ + 1, !.command = args[read.index].word]

TakesValue(args, i) ==
  IsOneOf(args[i], Options) /\ i < Len(args) /\ IsNumber(args[i + 1])

\* main casts the values of --devices and --ops to usize, which has the width of a u64
\* on 64-bit targets: there the cast changes no value.

\* Mutant: the value is read again as an argument.
WithValueUnskipped(args, read) ==
  [read EXCEPT !.index = @ + 1, !.values[args[read.index].word] = args[read.index + 1].number]

WithValue(args, read) ==
  [read EXCEPT !.index = @ + 2, !.values[args[read.index].word] = args[read.index + 1].number]

LowestLimit == 2000

Usable(values) ==
  /\ values.key_bits >= 512 /\ values.key_bits % 2 = 0
  /\ values.limit >= LowestLimit
  /\ values.devices >= 2

-----------------------------------------------------------------------------
(* What the usage text says the arguments mean, with no order of reading.  *)

\* An argument is a value when an option stands before it that is not itself one:
\* when it ends an odd number of options in a row.
IsValue(args, i) ==
  Cardinality({j \in 1 .. i - 1 : \A k \in j .. i - 1 : IsOneOf(args[k], Options)}) % 2 = 1

\* Where reading stops short.
Wrong(args) ==
  {i \in DOMAIN args :
     IF IsValue(args, i) THEN ~IsNumber(args[i])
     ELSE \/ ~IsOneOf(args[i], Commands \cup Options)
          \/ i = Len(args) /\ IsOneOf(args[i], Options)}

\* The last of the arguments that set the same thing is the one that counts.
Latest(args, positions, default) ==
  IF positions = {} THEN default
  ELSE args[CHOOSE i \in positions : \A j \in positions : j <= i]

DeclaredCommand(args) ==
  Latest(args, {i \in DOMAIN args : ~IsValue(args, i) /\ IsOneOf(args[i], Commands)},
         Word("check")).word

DeclaredValue(args, option) ==
  Latest(args, {i \in DOMAIN args : IsValue(args, i) /\ args[i - 1] = Word(option)},
         Number(Defaults[option])).number

\* Help is asked for before anything is wrong.
AsksForHelp(args) ==
  \E i \in DOMAIN args :
     /\ IsOneOf(args[i], Help) /\ ~IsValue(args, i)
     /\ \A j \in Wrong(args) : i <= j

\* What main refuses before it starts anything.
DeclaredUsable(args) ==
  /\ Wrong(args) = {}
  /\ DeclaredValue(args, "key_bits") >= 512 /\ DeclaredValue(args, "key_bits") % 2 = 0
  /\ DeclaredValue(args, "limit") >= LowestLimit
  /\ DeclaredValue(args, "devices") >= 2

=============================================================================
