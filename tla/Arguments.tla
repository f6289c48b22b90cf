------------------------------- MODULE Arguments ---------------------------------
(***************************************************************************)
(* The command line (cmd/axt-verify/flags.go parseCommandArgs, over the    *)
(* flag package): flags on either side of the command word, and everything *)
(* after the first "--" positional.                                        *)
(*                                                                         *)
(* An argument is one of: a word (not starting with "-", or "-" alone, or  *)
(* empty), the terminator "--", a flag that takes the next argument as its *)
(* value, one that carries its own or needs none, and one nobody defined.  *)
(***************************************************************************)
EXTENDS Integers, Sequences, SequencesExt

Words == {"run", "-", ""}
TakesNext == "--log-key"
Alone == "--json"
Unknown == "--nonsense"
Argument == Words \cup {"--", TakesNext, Alone, Unknown}

Refused == [ok |-> FALSE, set |-> <<>>, rest |-> 0]

\* A setting before those of r.
Preceded(value, r) == [r EXCEPT !.set = IF r.ok THEN <<value>> \o @ ELSE @]

\* flag.FlagSet.Parse, of the arguments from i on and given the same of those after:
\* settings up to the first word, a terminator, or an argument it refuses; what Args
\* returns starts at "rest".
ParsedFrom(args, from, i) ==
  IF i > Len(args) THEN [ok |-> TRUE, set |-> <<>>, rest |-> i]
  ELSE CASE args[i] \in Words -> [ok |-> TRUE, set |-> <<>>, rest |-> i]
         [] args[i] = "--" -> [ok |-> TRUE, set |-> <<>>, rest |-> i + 1]
         [] args[i] = Alone -> Preceded(<<Alone>>, from[i + 1])
         [] args[i] = TakesNext /\ i < Len(args) ->
              Preceded(<<TakesNext, args[i + 1]>>, from[i + 2])
         [] OTHER -> Refused
FlagParse(args) ==
  LET from[i \in 1..(Len(args) + 1)] == ParsedFrom(args, from, i) IN from

\* Slip: the terminator is left to the flag package.
CutNowhere(args) == [before |-> args, literal |-> <<>>]

\* The arguments before the first "--", and those after it.
Cut(args) ==
  IF "--" \notin Range(args) THEN [before |-> args, literal |-> <<>>]
  ELSE LET i == SelectInSeq(args, LAMBDA a : a = "--")
       IN [before |-> SubSeq(args, 1, i - 1), literal |-> SubSeq(args, i + 1, Len(args))]

Usage == [ok |-> FALSE, set |-> <<>>, positional |-> <<>>]

\* The loop over fs.Parse, which takes one word off after each, with the arguments from
\* k on remaining.
LoopedFrom(args, loop, k) ==
  LET p == FlagParse(args)[k]
      r == loop[p.rest + 1]
  IN IF ~p.ok THEN Usage
     ELSE IF p.rest > Len(args) THEN [ok |-> TRUE, set |-> p.set, positional |-> <<>>]
     ELSE IF ~r.ok THEN Usage
     ELSE [ok |-> TRUE, set |-> p.set \o r.set, positional |-> <<args[p.rest]>> \o r.positional]
Loop(args) ==
  LET loop[k \in 1..(Len(args) + 1)] == LoopedFrom(args, loop, k) IN loop[1]

\* Then the literal arguments.  No command, or an empty one, is a usage error.
ParseCommandArgs(args) ==
  LET cut == Cut(args)
      all == Loop(cut.before)
      positional == all.positional \o cut.literal
  IN IF ~all.ok \/ positional = <<>> \/ positional[1] = "" THEN Usage
     ELSE [all EXCEPT !.positional = positional]
----------------------------------------------------------------------------------
\* Whether argument i, before the terminator, is the value of the one before it.
IsValue(args) ==
  LET value[i \in 1..Len(args)] == i > 1 /\ args[i - 1] = TakesNext /\ ~value[i - 1]
  IN value

\* What the usage text says of a line: flags anywhere before "--" are flags, the
\* other arguments are words in order, and nothing after "--" is a flag.
Meant(args) ==
  LET stop == IF "--" \in Range(args) THEN SelectInSeq(args, LAMBDA a : a = "--")
              ELSE Len(args) + 1
      value == IsValue(args)
      settings[i \in 1..stop] ==   \* those of the flags from i on
        IF i = stop THEN <<>>
        ELSE IF value[i] \/ args[i] \notin {TakesNext, Alone} THEN settings[i + 1]
        ELSE <<IF args[i] = Alone THEN <<Alone>> ELSE <<TakesNext, args[i + 1]>> >>
               \o settings[i + 1]
      words[i \in 1..stop] ==
        IF i = stop THEN <<>>
        ELSE IF value[i] \/ args[i] \notin Words THEN words[i + 1]
        ELSE <<args[i]>> \o words[i + 1]
      positional == words[1] \o SubSeq(args, stop + 1, Len(args))
  IN IF \/ \E i \in 1..(stop - 1) : ~value[i] /\ args[i] = Unknown
        \/ stop > 1 /\ args[stop - 1] = TakesNext /\ ~value[stop - 1]
        \/ positional = <<>> \/ positional[1] = ""
     THEN Usage
     ELSE [ok |-> TRUE, set |-> settings[1], positional |-> positional]
==================================================================================
