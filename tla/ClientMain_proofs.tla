-------------------------- MODULE ClientMain_proofs --------------------------
(***************************************************************************)
(* Theorems about ClientMain and Config, for any environments, command     *)
(* lines and words, and any reading of numbers and URLs.                   *)
(*                                                                         *)
(* The argument about parse_config: index stands on an odd place, what is  *)
(* in front of it is well formed, and config merges the environment with   *)
(* exactly that part of the arguments.  About parse_server_url: to cut at  *)
(* the first slash and the last colon undoes every spelling of a host.     *)
(***************************************************************************)
EXTENDS ClientMain, SequenceTheorems, WellFoundedInduction, TLAPS

\* What parse_config knows when it looks at the next argument.
ReadSoFar ==
  /\ \A f \in Field : IsSet(f) => Readable(f, environment[f])
  /\ index % 2 = 1
  /\ \A i \in Odd(index - 1) :
       \E f \in Field : argv[i] = Option[f] /\ Readable(f, argv[i + 1])
  /\ config = Merged(index - 1)

PInv ==
  /\ ParseTypeOK
  /\ parse = "environment" => index = 1
  /\ parse = "arguments" => ReadSoFar
  /\ ParsedAsDocumented

-----------------------------------------------------------------------------
(* Helpers about the arguments *)

\* Two fields have different options.
LEMMA OptionsDiffer == \A f, g \in Field : Option[f] = Option[g] => f = g
  BY DEF Option, Field, Text, Number

\* The argument list and its length are typed.
LEMMA ArgvTypes ==
  ASSUME ParseTypeOK
  PROVE  /\ argv \in Seq(Words) /\ Len(argv) \in Nat
         /\ index \in Nat /\ index >= 1 /\ index <= Len(argv) + 1
         /\ environment \in [Field -> Words]
  BY ConfigAssumption DEF ParseTypeOK

\* The odd places grow by one with every pair.
LEMMA OddGrows ==
  ASSUME NEW n \in Nat, n % 2 = 1
  PROVE  Odd(n + 1) = Odd(n - 1) \cup {n}
<1>1. (n + 1) % 2 = 0
  OBVIOUS
<1>2. \A i : i \in 1 .. n + 1 <=> i \in 1 .. n - 1 \/ i = n \/ i = n + 1
  OBVIOUS
<1> QED
  BY <1>1, <1>2 DEF Odd

\* Reading a pair that sets f updates f and nothing else of the merge.
LEMMA MergeGrows ==
  ASSUME ParseTypeOK, NEW n \in Nat, n % 2 = 1, NEW f \in Field, argv[n] = Option[f]
  PROVE  Merged(n + 1) = [Merged(n - 1) EXCEPT ![f] = argv[n + 1]]
<1>1. Odd(n + 1) = Odd(n - 1) \cup {n}
  BY OddGrows
<1>2. \A i \in Odd(n - 1) : i \in Int /\ i < n
  BY DEF Odd
<1>3. Given(f, n + 1) = Given(f, n - 1) \cup {n}
  BY <1>1 DEF Given
<1>4. Last(Given(f, n + 1)) = n
  <2>1. n \in Given(f, n + 1) /\ \A j \in Given(f, n + 1) : j <= n
    BY <1>2, <1>3 DEF Given
  <2>2. ASSUME NEW i \in Given(f, n + 1), \A j \in Given(f, n + 1) : j <= i
        PROVE  i = n
    <3>1. i \in Int /\ i <= n /\ n <= i
      BY <1>2, <1>3, <2>1, <2>2 DEF Given
    <3> QED
      BY <3>1
  <2> QED
    BY <2>1, <2>2 DEF Last
<1>5. \A g \in Field : g # f => Given(g, n + 1) = Given(g, n - 1)
  BY <1>1, OptionsDiffer DEF Given
<1>6. Merged(n + 1)[f] = argv[n + 1]
  BY <1>3, <1>4 DEF Merged
<1>7. \A g \in Field : g # f => Merged(n + 1)[g] = Merged(n - 1)[g]
  BY <1>5 DEF Merged
<1> QED
  BY <1>6, <1>7 DEF Merged

-----------------------------------------------------------------------------
(* The steps of parse_config *)

\* Nothing read: the empty merge is the environment over the defaults.
LEMMA InitPInv == ParseInit => PInv
  BY ConfigAssumption DEF ParseInit, PInv, ParseTypeOK, ParsedAsDocumented

\* The environment is read.
LEMMA ReadEnvironmentStep == PInv /\ ReadEnvironment => PInv'
<1> SUFFICES ASSUME PInv, ReadEnvironment PROVE PInv'
  OBVIOUS
<1> USE DEF ReadEnvironment
<1>1. ParseTypeOK /\ index = 1 /\ Odd(0) = {}
  BY DEF PInv, Odd
<1>2. ParseTypeOK'
  <2>1. config' \in Configs
    BY <1>1, ArgvTypes, ConfigAssumption DEF Configs, Field, FromEnvironment, Readable, IsSet
  <2> QED
    BY <1>1, <2>1 DEF ParseTypeOK
<1>3. Merged(0) = [f \in Field |-> FromEnvironment(f)]
  BY <1>1 DEF Merged, Given
<1>4. ReadSoFar'
  <2>1. index' - 1 = 0 /\ index' % 2 = 1 /\ argv' = argv /\ environment' = environment
    BY <1>1
  <2>2. (config = Merged(index - 1))'
    BY <1>3, <2>1 DEF Merged, Given, FromEnvironment, IsSet, Odd
  <2> QED
    BY <1>1, <2>1, <2>2 DEF ReadSoFar, IsSet, Odd
<1> QED
  BY <1>2, <1>4 DEF PInv, ParsedAsDocumented

\* A pair is read.
LEMMA ReadOptionStep ==
  ASSUME PInv, NEW f \in Field, ReadOption(f)
  PROVE  PInv'
<1> USE DEF ReadOption, Sets
<1>1. ParseTypeOK /\ ReadSoFar
  BY DEF PInv
<1>2. /\ index \in Nat /\ index >= 1 /\ index < Len(argv) /\ Len(argv) \in Nat
      /\ argv \in Seq(Words) /\ index % 2 = 1
  BY <1>1, ArgvTypes DEF ReadSoFar
<1>3. argv[index + 1] \in Words
  BY <1>2
<1>4. ParseTypeOK'
  <2>1. config' \in Configs
    BY <1>1, <1>3 DEF ParseTypeOK, Configs, Field, Readable
  <2> QED
    BY <1>1, <1>2, <2>1 DEF ParseTypeOK
<1>5. Odd(index + 1) = Odd(index - 1) \cup {index}
  BY <1>2, OddGrows
<1>6. config' = Merged(index + 1)
  BY <1>1, <1>2, MergeGrows DEF ReadSoFar
<1>7. index' - 1 = index + 1 /\ index' % 2 = 1
  BY <1>2
<1>8. ReadSoFar'
  <2>1. (config = Merged(index - 1))'
    BY <1>6, <1>7 DEF Merged, Given, FromEnvironment, IsSet, Odd
  <2>2. \A i \in Odd(index + 1) :
          \E g \in Field : argv[i] = Option[g] /\ Readable(g, argv[i + 1])
    BY <1>1, <1>5 DEF ReadSoFar
  <2>3. \A g \in Field : IsSet(g) => Readable(g, environment[g])
    BY <1>1 DEF ReadSoFar
  <2> QED
    BY <1>7, <2>1, <2>2, <2>3 DEF ReadSoFar, IsSet, Odd
<1> QED
  BY <1>4, <1>8 DEF PInv, ParsedAsDocumented

\* An exception out of the environment or the arguments is deserved.
LEMMA RefuseStep == PInv /\ (RefuseEnvironment \/ RefuseArgument) => PInv'
<1> SUFFICES ASSUME PInv, RefuseEnvironment \/ RefuseArgument PROVE PInv'
  OBVIOUS
<1>1. ~WellFormed
  <2>1. CASE RefuseEnvironment
    BY <2>1 DEF RefuseEnvironment, WellFormed
  <2>2. CASE RefuseArgument
    <3>1. ParseTypeOK /\ ReadSoFar /\ index <= Len(argv)
      BY <2>2 DEF PInv, RefuseArgument
    <3>2. index \in Nat /\ index >= 1 /\ Len(argv) \in Nat /\ index % 2 = 1
      BY <3>1, ArgvTypes DEF ReadSoFar
    <3>3. CASE index = Len(argv)
      BY <3>2, <3>3 DEF WellFormed
    <3>4. CASE index < Len(argv)
      <4>1. index \in Odd(Len(argv))
        BY <3>2, <3>4 DEF Odd
      <4> QED
        BY <2>2, <3>4, <4>1 DEF RefuseArgument, Sets, WellFormed
    <3> QED
      BY <3>1, <3>2, <3>3, <3>4
  <2> QED
    BY <2>1, <2>2
<1>2. Throw
  BY DEF RefuseEnvironment, RefuseArgument
<1>3. ParseTypeOK'
  BY <1>2 DEF Throw, PInv, ParseTypeOK
<1>4. ~WellFormed'
  BY <1>1, <1>2 DEF Throw, WellFormed, IsSet, Odd
<1> QED
  BY <1>2, <1>3, <1>4 DEF Throw, PInv, ParsedAsDocumented

\* validate is called on the merge of everything.
LEMMA ValidateStep == PInv /\ Validate => PInv'
<1> SUFFICES ASSUME PInv, Validate PROVE PInv'
  OBVIOUS
<1> USE DEF Validate
<1>1. ParseTypeOK /\ ReadSoFar /\ index > Len(argv)
  BY DEF PInv
<1>2. index - 1 = Len(argv) /\ Len(argv) % 2 = 0
  BY <1>1, ArgvTypes DEF ReadSoFar
<1>3. WellFormed /\ config = Merged(Len(argv))
  BY <1>1, <1>2 DEF ReadSoFar, WellFormed
<1>4. ParseTypeOK'
  BY <1>1 DEF ParseTypeOK
<1>5. WellFormed' /\ Merged(Len(argv))' = Merged(Len(argv))
  BY <1>3 DEF WellFormed, IsSet, Odd, Merged, Given, FromEnvironment
<1>6. config' = config /\ Valid(config)' = Valid(config)
  BY DEF Valid
<1>7. parse' = "accepted" \/ parse' = "thrown"
  OBVIOUS
<1>8. ParsedAsDocumented'
  BY <1>3, <1>5, <1>6 DEF ParsedAsDocumented
<1> QED
  BY <1>4, <1>7, <1>8 DEF PInv

\* Steps that leave the parsing alone keep what is known of it.
LEMMA ParseUnchanged == PInv /\ UNCHANGED parsing => PInv'
<1> SUFFICES ASSUME PInv, UNCHANGED parsing PROVE PInv'
  OBVIOUS
<1>1. /\ environment' = environment /\ argv' = argv /\ index' = index
      /\ config' = config /\ parse' = parse
  BY DEF parsing
<1>2. ParseTypeOK'
  BY <1>1 DEF PInv, ParseTypeOK
<1>3. WellFormed' = WellFormed
  BY <1>1 DEF WellFormed, IsSet, Odd
<1>4. /\ Merged(index - 1)' = Merged(index - 1)
      /\ Merged(Len(argv))' = Merged(Len(argv))
  BY <1>1 DEF Merged, Given, FromEnvironment, IsSet, Odd
<1>5. ReadSoFar => ReadSoFar'
  BY <1>1, <1>4 DEF ReadSoFar, IsSet, Odd
<1>6. Valid(config)' = Valid(config) /\ Valid(Merged(Len(argv)))' = Valid(Merged(Len(argv)))
  BY <1>1, <1>4
<1> QED
  BY <1>1, <1>2, <1>3, <1>4, <1>5, <1>6 DEF PInv, ParsedAsDocumented

\* Every step of parse_config keeps the invariant.
LEMMA ParseStep == PInv /\ ParseNext => PInv'
  BY ReadEnvironmentStep, ReadOptionStep, RefuseStep, ValidateStep DEF ParseNext
-----------------------------------------------------------------------------
(* main *)

\* Where main is tells which handlers are installed and how far parsing got.
MainInv ==
  /\ exit = -1 <=> pc # "exited"
  /\ pc \in {"help", "install", "parse"} => parse \in {"environment", "arguments"}
  /\ pc \notin {"help", "exited"} => ~WantsHelp
  /\ pc \in {"help", "install"} => handled \in {{}, {"SIGINT"}}
  /\ pc = "parse" \/ Running => handled = Signals
  /\ Running => parse = "accepted"
  /\ pc \in {"help", "install", "parse", "run"} => endpoint = Unread

IInv ==
  /\ TypeOK
  /\ PInv
  /\ MainInv
  /\ ExitTellsWhy

\* The first state.
LEMMA InitIInv == Init => IInv
<1> SUFFICES ASSUME Init PROVE IInv
  OBVIOUS
<1> USE DEF Init
<1>1. PInv /\ TypeOK
  BY InitPInv DEF PInv, TypeOK
<1>2. MainInv /\ ~Running
  BY DEF ParseInit, MainInv, Running
<1>3. ExitTellsWhy
  BY <1>2 DEF ExitTellsWhy, Killed
<1> QED
  BY <1>1, <1>2, <1>3 DEF IInv

\* Whether help is wanted does not change.
LEMMA HelpIsFixed == argv' = argv => WantsHelp' = WantsHelp
  BY DEF WantsHelp

\* Signals and the steps of main outside parse_config and run.
LEMMA OutsideStep ==
  ASSUME IInv, Help \/ Install \/ InstallFails \/ (\E s \in Signals : Signal(s))
  PROVE  IInv'
<1>1. UNCHANGED parsing
  BY DEF Help, Install, InstallFails, Signal
<1>2. PInv' /\ argv' = argv /\ parse' = parse /\ config' = config
  BY <1>1, ParseUnchanged DEF IInv, parsing
<1>3. WantsHelp' = WantsHelp /\ Valid(config)' = Valid(config)
  BY <1>2, HelpIsFixed
<1>4. TypeOK'
  BY <1>2 DEF IInv, PInv, TypeOK, Help, Install, InstallFails, Signal, Exit, Goto, Signals, Killed
<1>5. MainInv'
  <2>1. CASE Help \/ InstallFails
    BY <1>2, <1>3, <2>1 DEF IInv, MainInv, Help, InstallFails, Exit, Goto, Running
  <2>2. CASE Install
    BY <1>2, <1>3, <2>2 DEF IInv, MainInv, Install, Running
  <2>3. ASSUME NEW s \in Signals, Signal(s)
        PROVE  MainInv'
    BY <1>2, <1>3, <2>3 DEF IInv, MainInv, Signal, Exit, Running, Killed
  <2> QED
    BY <2>1, <2>2, <2>3
<1>6. ExitTellsWhy'
  <2>1. CASE Help \/ Install \/ InstallFails
    BY <1>2, <1>3, <2>1
    DEF IInv, TypeOK, MainInv, ExitTellsWhy, WantsHelp, Help, Install, InstallFails, Exit, Goto,
        Running, Signals, Killed
  <2>2. ASSUME NEW s \in Signals, Signal(s), s \in handled
        PROVE  ExitTellsWhy'
    BY <1>2, <1>3, <2>2 DEF IInv, ExitTellsWhy, Signal, Running
  <2>3. ASSUME NEW s \in Signals, Signal(s), s \notin handled
        PROVE  ExitTellsWhy'
    BY <1>2, <1>3, <2>3 DEF ExitTellsWhy, Signal, Exit, Running, Killed
  <2> QED
    BY <2>1, <2>2, <2>3
<1> QED
  BY <1>2, <1>4, <1>5, <1>6 DEF IInv

\* A step of parse_config, and what main makes of its end.
LEMMA ParseInMainStep == IInv /\ Parse => IInv'
<1> SUFFICES ASSUME IInv, Parse PROVE IInv'
  OBVIOUS
<1>1. PInv'
  BY ParseStep DEF IInv, Parse
<1>2. argv' = argv /\ parse' \in {"environment", "arguments", "accepted", "thrown"}
  BY <1>1 DEF PInv, ParseTypeOK, Parse, ParseNext, ReadEnvironment, RefuseEnvironment, ReadOption,
     RefuseArgument, Validate, Throw
<1>3. WantsHelp' = WantsHelp
  BY <1>2, HelpIsFixed
<1>4. parse' = "accepted" => Valid(config)'
  BY <1>1 DEF PInv, ParsedAsDocumented
<1>5. \/ parse' = "accepted" /\ Goto("run")
      \/ parse' = "thrown" /\ Exit(1)
      \/ parse' \in {"environment", "arguments"} /\ UNCHANGED process
  BY <1>2 DEF Parse
<1>6. pc = "parse"
  BY DEF Parse
<1>7. TypeOK'
  BY <1>1, <1>5 DEF IInv, PInv, TypeOK, Exit, Goto, process
<1>8. MainInv'
  BY <1>2, <1>3, <1>5, <1>6 DEF IInv, MainInv, Exit, Goto, process, Running
<1>9. ExitTellsWhy'
  BY <1>2, <1>3, <1>4, <1>5, <1>6
  DEF IInv, MainInv, ExitTellsWhy, WantsHelp, Exit, Goto, process, Running, Signals, Killed
<1> QED
  BY <1>1, <1>7, <1>8, <1>9 DEF IInv

\* Dialling, and the end of run.
LEMMA RunStep ==
  ASSUME IInv, Dial \/ (\E code \in {0, 2} : RunReturns(code)) \/ RunThrows
  PROVE  IInv'
<1>1. UNCHANGED parsing /\ Running
  BY DEF Dial, RunReturns, RunThrows, Running
<1>2. PInv' /\ argv' = argv /\ parse' = parse /\ config' = config
  BY <1>1, ParseUnchanged DEF IInv, parsing
<1>3. WantsHelp' = WantsHelp /\ Valid(config)' = Valid(config)
  BY <1>2, HelpIsFixed
<1>4. TypeOK'
  BY <1>2 DEF IInv, PInv, TypeOK, Dial, RunReturns, RunThrows, Exit
<1>5. MainInv'
  BY <1>1, <1>2, <1>3 DEF IInv, TypeOK, MainInv, Dial, RunReturns, RunThrows, Exit, Running
<1>6. ExitTellsWhy'
  BY <1>1, <1>2, <1>3
  DEF IInv, TypeOK, MainInv, ExitTellsWhy, WantsHelp, Dial, RunReturns, RunThrows, Exit, Running,
      Signals, Killed
<1> QED
  BY <1>2, <1>4, <1>5, <1>6 DEF IInv

\* Every step and every stutter keeps the invariant.
LEMMA NextIInv == IInv /\ [Next]_<<parsing, process>> => IInv'
<1> SUFFICES ASSUME IInv, [Next]_<<parsing, process>> PROVE IInv'
  OBVIOUS
<1>1. CASE Help \/ Install \/ InstallFails \/ (\E s \in Signals : Signal(s))
  BY <1>1, OutsideStep
<1>2. CASE Parse
  BY <1>2, ParseInMainStep
<1>3. CASE Dial \/ (\E code \in {0, 2} : RunReturns(code)) \/ RunThrows
  BY <1>3, RunStep
<1>4. CASE UNCHANGED <<parsing, process>>
  <2>1. PInv' /\ argv' = argv /\ parse' = parse /\ config' = config /\ UNCHANGED process
    BY <1>4, ParseUnchanged DEF IInv, parsing
  <2>2. WantsHelp' = WantsHelp /\ Valid(config)' = Valid(config)
    BY <2>1, HelpIsFixed
  <2> QED
    BY <2>1, <2>2 DEF IInv, PInv, TypeOK, MainInv, ExitTellsWhy, WantsHelp, process, Running
<1> QED
  BY <1>1, <1>2, <1>3, <1>4 DEF Next

-----------------------------------------------------------------------------
\* Every variable of main and parse_config keeps its type: numbers are numbers.
THEOREM TypeCorrect == Spec => []TypeOK
<1>1. IInv => TypeOK
  BY DEF IInv
<1> QED
  BY <1>1, InitIInv, NextIInv, PTL DEF Spec

\* For every environment and command line, parse_config returns the documented
\* merge, validated, or throws because there is none.
THEOREM Parsing == Spec => []ParsedAsDocumented
<1>1. IInv => ParsedAsDocumented
  BY DEF IInv, PInv
<1> QED
  BY <1>1, InitIInv, NextIInv, PTL DEF Spec

\* For all inputs and wherever signals arrive: 0 is help or the requested end of
\* a started client, 1 that nothing was dialled, 2 a started client's failure,
\* and a signal kills only before the handlers are installed.
THEOREM ExitCodes == Spec => []ExitTellsWhy
<1>1. IInv => ExitTellsWhy
  BY DEF IInv
<1> QED
  BY <1>1, InitIInv, NextIInv, PTL DEF Spec

-----------------------------------------------------------------------------
(* What parse_server_url returns: the host and port the URL spells, or an    *)
(* exception if it spells none.                                              *)

NatLess == {ss \in Nat \X Nat : ss[1] < ss[2]}

\* A set of places that is not empty has a first one ...
LEMMA FirstIsFirst ==
  ASSUME NEW S, S \subseteq Nat, S # {}
  PROVE  First(S) \in S /\ \A j \in S : First(S) <= j
<1>1. IsWellFoundedOn(NatLess, Nat)
  BY NatLessThanWellFounded, Zenon DEF OpToRel, NatLess
<1>2. PICK x \in S : \A y \in S : ~ (<<y, x>> \in NatLess)
  BY <1>1, WFMin
<1>3. ASSUME NEW y \in S
      PROVE  x <= y
  <2>1. x \in Nat /\ y \in Nat
    OBVIOUS
  <2>2. ~ (<<y, x>> \in NatLess)
    BY <1>2
  <2> QED
    BY <2>1, <2>2 DEF NatLess
<1> QED
  BY <1>3, Zenon DEF First

\* ... and, up to a bound, a last one.
LEMMA LastIsLast ==
  ASSUME NEW n \in Nat, NEW S, S \subseteq 1 .. n, S # {}
  PROVE  Last(S) \in S /\ \A j \in S : j <= Last(S)
<1> DEFINE mirror == {n - i : i \in S}
<1>1. mirror \subseteq Nat /\ mirror # {}
  <2>1. \A i \in S : n - i \in Nat
    OBVIOUS
  <2>2. PICK i \in S : TRUE
    OBVIOUS
  <2>3. n - i \in mirror
    BY <2>2
  <2> QED
    BY <2>1, <2>3
<1>2. First(mirror) \in mirror /\ \A j \in mirror : First(mirror) <= j
  BY <1>1, FirstIsFirst
<1>3. PICK x \in S : First(mirror) = n - x
  BY <1>2
<1>4. ASSUME NEW j \in S PROVE j <= x
  <2>1. n - x <= n - j
    BY <1>2, <1>3
  <2> QED
    BY <2>1
<1> QED
  BY <1>4, Zenon DEF Last

-----------------------------------------------------------------------------
\* A sequence is what stands in front of a place, the place, and the rest.
LEMMA CutAt ==
  ASSUME NEW a \in Seq(Characters), NEW p \in 1 .. Len(a)
  PROVE  /\ SubSeq(a, 1, p - 1) \in Seq(Characters) /\ Len(SubSeq(a, 1, p - 1)) = p - 1
         /\ \A i \in 1 .. p - 1 : SubSeq(a, 1, p - 1)[i] = a[i]
         /\ SubSeq(a, p + 1, Len(a)) \in Seq(Characters)
         /\ Len(SubSeq(a, p + 1, Len(a))) = Len(a) - p
         /\ \A i \in 1 .. Len(a) - p : SubSeq(a, p + 1, Len(a))[i] = a[p + i]
         /\ a = SubSeq(a, 1, p - 1) \o <<a[p]>> \o SubSeq(a, p + 1, Len(a))
<1> DEFINE h == SubSeq(a, 1, p - 1)
           t == SubSeq(a, p + 1, Len(a))
<1>1. h \in Seq(Characters) /\ Len(h) = p - 1 /\ \A i \in 1 .. p - 1 : h[i] = a[i]
  BY SubSeqProperties
<1>2. t \in Seq(Characters) /\ Len(t) = Len(a) - p /\ \A i \in 1 .. Len(a) - p : t[i] = a[p + i]
  BY SubSeqProperties
<1>3. a[p] \in Characters
  BY ElementOfSeq
<1>5. Len(a) \in Nat /\ p \in Nat
  BY LenProperties
<1>4. a = h \o <<a[p]>> \o t
  <2>1. h \o <<a[p]>> \in Seq(Characters) /\ Len(h \o <<a[p]>>) = p
    BY <1>1, <1>3
  <2> HIDE DEF h, t
  <2> DEFINE front == h \o <<a[p]>>
  <2>2. \A i \in 1 .. p : front[i] = a[i]
    BY <1>1, <1>3
  <2>7. front \in Seq(Characters) /\ Len(front) = p
    BY <2>1
  <2> HIDE DEF front
  <2>3. /\ front \o t \in Seq(Characters) /\ Len(front \o t) = p + Len(t)
        /\ \A i \in 1 .. p + Len(t) :
             (front \o t)[i] = IF i <= p THEN front[i] ELSE t[i - p]
    BY <1>2, <2>7, ConcatProperties
  <2>4. ASSUME NEW i \in 1 .. Len(a)
        PROVE  a[i] = (front \o t)[i]
    <3>1. CASE i <= p
      BY <1>2, <2>2, <2>3, <3>1
    <3>2. CASE i > p
      <4>1. i - p \in 1 .. Len(a) - p /\ p + (i - p) = i
        BY <3>2
      <4>2. (front \o t)[i] = t[i - p]
        BY <1>2, <2>3, <3>2
      <4> QED
        BY <1>2, <4>1, <4>2
    <3>3. i <= p \/ i > p
      BY <1>5
    <3> QED
      BY <3>1, <3>2, <3>3, Zenon
  <2>5. Len(a) = Len(front \o t)
    BY <1>2, <2>3
  <2>6. a = front \o t
    BY <2>3, <2>4, <2>5, SeqEqual
  <2> QED
    BY <2>6 DEF front
<1> QED
  BY <1>1, <1>2, <1>4

-----------------------------------------------------------------------------
\* Appending one character or a whole sequence, place by place.
LEMMA Joined ==
  ASSUME NEW s \in Seq(Characters), NEW x \in Characters, NEW t \in Seq(Characters)
  PROVE  /\ s \o <<x>> \in Seq(Characters) /\ Len(s \o <<x>>) = Len(s) + 1
         /\ \A i \in 1 .. Len(s) : (s \o <<x>>)[i] = s[i]
         /\ (s \o <<x>>)[Len(s) + 1] = x
         /\ s \o <<x>> \o t \in Seq(Characters) /\ Len(s \o <<x>> \o t) = Len(s) + 1 + Len(t)
         /\ \A i \in 1 .. Len(s) : (s \o <<x>> \o t)[i] = s[i]
         /\ (s \o <<x>> \o t)[Len(s) + 1] = x
         /\ \A i \in 1 .. Len(t) : (s \o <<x>> \o t)[Len(s) + 1 + i] = t[i]
<1> DEFINE u == s \o <<x>>
<1>1. /\ u \in Seq(Characters) /\ Len(u) = Len(s) + 1 /\ u[Len(s) + 1] = x
      /\ \A i \in 1 .. Len(s) : u[i] = s[i]
  OBVIOUS
<1> HIDE DEF u
<1>2. Len(s) \in Nat /\ Len(t) \in Nat /\ Len(u) \in Nat
  BY <1>1, LenProperties
<1>3. /\ u \o t \in Seq(Characters) /\ Len(u \o t) = Len(u) + Len(t)
      /\ \A i \in 1 .. Len(u) + Len(t) : (u \o t)[i] = IF i <= Len(u) THEN u[i] ELSE t[i - Len(u)]
  BY <1>1, ConcatProperties
<1>4. \A i \in 1 .. Len(s) : (u \o t)[i] = s[i]
  BY <1>1, <1>2, <1>3
<1>5. (u \o t)[Len(s) + 1] = x
  BY <1>1, <1>2, <1>3
<1>6. ASSUME NEW i \in 1 .. Len(t)
      PROVE  (u \o t)[Len(s) + 1 + i] = t[i]
  <2>1. Len(s) + 1 + i \in 1 .. Len(u) + Len(t) /\ ~(Len(s) + 1 + i <= Len(u))
    BY <1>1, <1>2
  <2>2. (u \o t)[Len(s) + 1 + i] = t[Len(s) + 1 + i - Len(u)]
    BY <1>3, <2>1
  <2>3. Len(s) + 1 + i - Len(u) = i
    BY <1>1, <1>2
  <2> QED
    BY <2>2, <2>3
<1>7. Len(u \o t) = Len(s) + 1 + Len(t)
  BY <1>1, <1>2, <1>3
<1> QED
  BY <1>1, <1>3, <1>4, <1>5, <1>6, <1>7 DEF u

-----------------------------------------------------------------------------
(* parse_server_url finds what the URL spells *)

\* The URL without a trailing slash: a usable URL is this, or this and a slash.
LEMMA PathCut ==
  ASSUME NEW a \in Seq(Characters), ~HasPath(a)
  PROVE  /\ BeforePath(a) \in Seq(Characters)
         /\ a = BeforePath(a) \/ a = BeforePath(a) \o <<"/">>
         /\ Where(BeforePath(a), "/") = {}
<1>1. Len(a) \in Nat /\ DOMAIN a = 1 .. Len(a)
  BY LenProperties
<1>2. CASE Where(a, "/") = {}
  BY <1>2 DEF BeforePath
<1>3. CASE Where(a, "/") # {}
  <2> DEFINE p == First(Where(a, "/"))
             b == SubSeq(a, 1, p - 1)
  <2>1. Where(a, "/") \subseteq 1 .. Len(a)
    BY <1>1 DEF Where
  <2>2. p \in Where(a, "/") /\ \A j \in Where(a, "/") : p <= j
    BY <1>3, <2>1, FirstIsFirst
  <2>3. p = Len(a) /\ p \in 1 .. Len(a) /\ a[p] = "/"
    BY <1>3, <2>1, <2>2 DEF HasPath, Where
  <2>4. BeforePath(a) = b
    BY <1>3 DEF BeforePath
  <2> HIDE DEF p
  <2>5. /\ b \in Seq(Characters) /\ Len(b) = p - 1
        /\ \A i \in 1 .. p - 1 : b[i] = a[i]
        /\ a = b \o <<a[p]>> \o SubSeq(a, p + 1, Len(a))
    BY <2>3, CutAt
  <2>6. SubSeq(a, p + 1, Len(a)) = <<>>
    BY <1>1, <2>3, SubSeqEmpty
  <2> HIDE DEF b
  <2>7. a = b \o <<"/">>
    <3>1. b \o <<"/">> \in Seq(Characters)
      BY <2>5, UrlAssumption
    <3> QED
      BY <2>3, <2>5, <2>6, <3>1, ConcatEmptySeq
  <2>8. Where(b, "/") = {}
    <3>1. SUFFICES ASSUME NEW i \in Where(b, "/") PROVE FALSE
      OBVIOUS
    <3>2. i \in 1 .. p - 1 /\ b[i] = "/"
      BY <2>5, LenProperties DEF Where
    <3>3. a[i] = "/" /\ i \in 1 .. Len(a)
      BY <1>1, <2>3, <2>5, <3>2
    <3>4. i \in Where(a, "/")
      BY <1>1, <3>3 DEF Where
    <3> QED
      BY <1>1, <2>2, <2>3, <3>2, <3>4 DEF p
  <2> QED
    BY <2>4, <2>5, <2>7, <2>8
<1> QED
  BY <1>2, <1>3
\* What parse_server_url returns is spelled by the URL.
LEMMA FoundIsSpelled ==
  ASSUME NEW a \in Seq(Characters), Endpoint(a) # Failed
  PROVE  Spells(Endpoint(a), a)
<1> DEFINE b == BeforePath(a)
           colons == Where(b, ":")
<1>1. ~HasPath(a) /\ b # <<>> /\ Endpoint(a) = Split(b)
  BY DEF Endpoint
<1>2. b \in Seq(Characters) /\ (a = b \/ a = b \o <<"/">>) /\ Where(b, "/") = {}
  BY <1>1, PathCut
<1>3. Len(b) \in Nat /\ DOMAIN b = 1 .. Len(b)
  BY <1>2, LenProperties
<1> HIDE DEF b
<1>4. CASE colons = {}
  <2>1. Endpoint(a) = [host |-> b, port |-> DefaultPort]
    BY <1>1, <1>4 DEF Split
  <2> QED
    BY <1>1, <1>2, <1>4, <2>1 DEF Spells
<1>5. CASE colons # {}
  <2> DEFINE p == Last(colons)
             h == SubSeq(b, 1, p - 1)
             t == SubSeq(b, p + 1, Len(b))
  <2>1. colons \subseteq 1 .. Len(b)
    BY <1>3 DEF Where
  <2>2. p \in colons /\ \A j \in colons : j <= p
    BY <1>3, <1>5, <2>1, LastIsLast
  <2>3. p \in 1 .. Len(b) /\ b[p] = ":"
    BY <2>1, <2>2 DEF Where
  <2>4. p # 1 /\ p # Len(b) /\ Endpoint(a) = [host |-> h, port |-> t]
    BY <1>1, <1>5 DEF Split
  <2> HIDE DEF p
  <2>5. /\ h \in Seq(Characters) /\ Len(h) = p - 1 /\ \A i \in 1 .. p - 1 : h[i] = b[i]
        /\ t \in Seq(Characters) /\ Len(t) = Len(b) - p
        /\ \A i \in 1 .. Len(b) - p : t[i] = b[p + i]
        /\ b = h \o <<b[p]>> \o t
    BY <1>2, <2>3, CutAt
  <2> HIDE DEF h, t
  <2>6. h # <<>> /\ t # <<>>
    <3>1. Len(h) = p - 1 /\ Len(t) = Len(b) - p
      BY <2>5
    <3>2. p # 1 /\ p # Len(b)
      BY <2>4
    <3>3. p \in Int /\ Len(b) \in Int
      BY <1>3, <2>3
    <3>4. p - 1 # 0 /\ Len(b) - p # 0
      BY <3>2, <3>3
    <3> QED
      BY <3>1, <3>4, EmptySeq
  <2>7. Where(h, "/") = {}
    <3>1. SUFFICES ASSUME NEW i \in Where(h, "/") PROVE FALSE
      OBVIOUS
    <3>2. i \in 1 .. p - 1 /\ h[i] = "/"
      BY <2>5, LenProperties DEF Where
    <3>3. i \in DOMAIN b /\ b[i] = "/"
      BY <1>3, <2>3, <2>5, <3>2
    <3> QED
      BY <1>2, <3>3 DEF Where
  <2>8. Where(t, "/") = {} /\ Where(t, ":") = {}
    <3>1. ASSUME NEW i \in DOMAIN t
          PROVE  p + i \in DOMAIN b /\ t[i] = b[p + i] /\ ~(p + i <= p)
      <4>1. i \in 1 .. Len(b) - p
        BY <2>5, LenProperties
      <4> QED
        BY <1>3, <2>3, <2>5, <4>1
    <3>2. \A i \in DOMAIN t : t[i] # "/"
      BY <1>2, <3>1 DEF Where
    <3>3. \A i \in DOMAIN t : t[i] # ":"
      BY <2>2, <3>1 DEF Where
    <3> QED
      BY <3>2, <3>3 DEF Where
  <2>9. a = h \o <<":">> \o t \/ a = h \o <<":">> \o t \o <<"/">>
    BY <1>2, <2>3, <2>5
  <2> QED
    BY <2>4, <2>6, <2>7, <2>8, <2>9 DEF Spells
<1> QED
  BY <1>4, <1>5

\* A sequence without slashes is what is left in front of a slash behind it.
LEMMA PathKept ==
  ASSUME NEW b \in Seq(Characters), Where(b, "/") = {},
         NEW a, a = b \/ a = b \o <<"/">>
  PROVE  ~HasPath(a) /\ BeforePath(a) = b
<1>1. Len(b) \in Nat /\ DOMAIN b = 1 .. Len(b)
  BY LenProperties
<1>2. CASE a = b
  BY <1>2 DEF HasPath, BeforePath
<1>3. CASE a = b \o <<"/">>
  <2>1. /\ a \in Seq(Characters) /\ Len(a) = Len(b) + 1 /\ a[Len(b) + 1] = "/"
        /\ \A i \in 1 .. Len(b) : a[i] = b[i]
    BY <1>3, Joined, UrlAssumption
  <2>2. DOMAIN a = 1 .. Len(b) + 1
    BY <2>1, LenProperties
  <2>3. Where(a, "/") = {Len(b) + 1}
    <3>1. \A i \in 1 .. Len(b) : a[i] # "/"
      BY <1>1, <2>1 DEF Where
    <3>2. \A i \in DOMAIN a : i \in 1 .. Len(b) \/ i = Len(b) + 1
      BY <1>1, <2>2
    <3>3. Len(b) + 1 \in DOMAIN a
      BY <1>1, <2>2
    <3> QED
      BY <2>1, <3>1, <3>2, <3>3 DEF Where
  <2>4. First(Where(a, "/")) = Len(b) + 1
    BY <1>1, <2>3, FirstIsFirst
  <2>5. BeforePath(a) = SubSeq(a, 1, Len(b))
    BY <1>1, <2>3, <2>4 DEF BeforePath
  <2>6. /\ SubSeq(a, 1, Len(b)) \in Seq(Characters) /\ Len(SubSeq(a, 1, Len(b))) = Len(b)
        /\ \A i \in 1 .. Len(b) : SubSeq(a, 1, Len(b))[i] = b[i]
    <3>1. SubSeq(a, 1, (Len(b) + 1) - 1) = SubSeq(a, 1, Len(b)) /\ (Len(b) + 1) - 1 = Len(b)
      BY <1>1
    <3>2. Len(b) + 1 \in 1 .. Len(a)
      BY <1>1, <2>1
    <3> QED
      BY <2>1, <3>1, <3>2, CutAt
  <2>7. SubSeq(a, 1, Len(b)) = b
    BY <2>6, SeqEqual
  <2> QED
    BY <2>1, <2>3, <2>4, <2>5, <2>7 DEF HasPath
<1> QED
  BY <1>2, <1>3
\* parse_server_url finds host and port of every URL that spells them.
LEMMA SpelledIsFound ==
  ASSUME NEW a \in Seq(Characters), NEW host \in Seq(Characters), NEW port \in Seq(Characters),
         Spells([host |-> host, port |-> port], a)
  PROVE  Endpoint(a) # Failed
<1> DEFINE both == host \o <<":">> \o port
<1>1. host # <<>> /\ Where(host, "/") = {} /\ Len(host) \in Nat /\ Len(host) # 0
  <2>1. host # <<>> /\ Where(host, "/") = {}
    BY DEF Spells
  <2> QED
    BY <2>1, EmptySeq
<1>2. CASE Where(host, ":") = {} /\ a \in {host, host \o <<"/">>}
  <2>1. ~HasPath(a) /\ BeforePath(a) = host
    BY <1>1, <1>2, PathKept
  <2>2. Endpoint(a) = [host |-> host, port |-> DefaultPort]
    BY <1>1, <1>2, <2>1 DEF Endpoint, Split
  <2> QED
    BY <1>1, <2>2 DEF Failed
<1>3. CASE /\ port # <<>> /\ Where(port, ":") = {} /\ Where(port, "/") = {}
           /\ a \in {both, both \o <<"/">>}
  <2> DEFINE n == Len(host) + 1
  <2>1. /\ both \in Seq(Characters) /\ Len(both) = n + Len(port)
        /\ \A i \in 1 .. Len(host) : both[i] = host[i]
        /\ both[n] = ":"
        /\ \A i \in 1 .. Len(port) : both[n + i] = port[i]
    BY Joined, UrlAssumption
  <2>2. Len(port) \in Nat /\ Len(port) # 0 /\ n \in Nat
    BY <1>1, <1>3, EmptySeq
  <2> HIDE DEF both
  <2>3. /\ DOMAIN both = 1 .. n + Len(port) /\ DOMAIN host = 1 .. Len(host)
        /\ DOMAIN port = 1 .. Len(port)
    BY <2>1, LenProperties
  <2>4. ASSUME NEW i \in DOMAIN both
        PROVE  \/ i \in DOMAIN host /\ both[i] = host[i]
               \/ i = n
               \/ i > n /\ i - n \in DOMAIN port /\ both[i] = port[i - n]
    <3>1. CASE i < n
      BY <1>1, <2>1, <2>3, <3>1
    <3>2. CASE i > n
      <4>1. i - n \in 1 .. Len(port) /\ n + (i - n) = i
        BY <2>2, <2>3, <3>2
      <4> QED
        BY <2>1, <2>3, <3>2, <4>1
    <3> QED
      BY <2>2, <2>3, <3>1, <3>2
  <2>5. Where(both, "/") = {}
    <3>1. \A i \in DOMAIN host : host[i] # "/"
      BY <1>1 DEF Where
    <3>2. \A i \in DOMAIN port : port[i] # "/"
      BY <1>3 DEF Where
    <3>3. both[n] # "/"
      BY <2>1
    <3>4. ASSUME NEW i \in DOMAIN both PROVE both[i] # "/"
      BY <2>4, <3>1, <3>2, <3>3
    <3> QED
      BY <3>4 DEF Where
  <2>6. ~HasPath(a) /\ BeforePath(a) = both
    BY <1>3, <2>1, <2>5, PathKept
  <2>7. both # <<>>
    BY <2>1, <2>2, EmptySeq
  <2>8. n \in Where(both, ":") /\ \A j \in Where(both, ":") : j <= n
    <3>1. n \in DOMAIN both
      BY <1>1, <2>2, <2>3
    <3>2. ASSUME NEW j \in Where(both, ":") PROVE j <= n
      <4>1. j \in DOMAIN both /\ both[j] = ":" /\ j \in Nat
        BY <2>3 DEF Where
      <4>2. CASE j > n
        BY <1>3, <2>4, <4>1, <4>2 DEF Where
      <4> QED
        BY <2>2, <4>1, <4>2
    <3> QED
      BY <2>1, <3>1, <3>2 DEF Where
  <2>9. Last(Where(both, ":")) = n
    <3>1. \A i \in Where(both, ":") : i \in Nat
      BY <2>3 DEF Where
    <3>2. \A i \in Where(both, ":") : (\A j \in Where(both, ":") : j <= i) => i = n
      BY <2>2, <2>8, <3>1
    <3> QED
      BY <2>8, <3>2 DEF Last
  <2>10. Endpoint(a) = [host |-> SubSeq(both, 1, n - 1), port |-> SubSeq(both, n + 1, Len(both))]
    <3>1. n # 1 /\ n # Len(both)
      BY <1>1, <2>1, <2>2
    <3> QED
      BY <2>6, <2>7, <2>8, <2>9, <3>1 DEF Endpoint, Split
  <2>11. Len(SubSeq(both, 1, n - 1)) = n - 1
    <3>1. n \in 1 .. Len(both)
      BY <1>1, <2>1, <2>2
    <3> QED
      BY <2>1, <3>1, CutAt
  <2>12. SubSeq(both, 1, n - 1) # <<>>
    <3>1. n - 1 # 0
      BY <1>1
    <3> QED
      BY <2>11, <3>1, EmptySeq
  <2> QED
    BY <2>10, <2>12 DEF Failed
<1> QED
  BY <1>2, <1>3 DEF Spells

-----------------------------------------------------------------------------
\* The client dials exactly the host and port its URL spells and gives up a
\* connect before dialling only for a URL that spells none, for every URL.
THEOREM Dialling == Spec => []EndpointIsConfigured
<1> DEFINE J == EndpointIsConfigured /\ (pc = "backoff" => endpoint = Failed)
<1>1. Init => J
  BY DEF Init, EndpointIsConfigured
<1>2. IInv /\ J /\ [Next]_<<parsing, process>> => J'
  <2> SUFFICES ASSUME IInv, J, [Next]_<<parsing, process>> PROVE J'
    OBVIOUS
  <2>1. CASE Dial
    <3> DEFINE a == AuthorityOf[config.server_url]
    <3>1. config' = config /\ endpoint' = Endpoint(a)
          /\ pc' = (IF endpoint' = Failed THEN "backoff" ELSE "dial") /\ Running
      BY <2>1 DEF Dial, parsing
    <3>2. a \in Seq(Characters)
      BY <3>1, UrlAssumption DEF IInv, ExitTellsWhy, Valid
    <3>3. endpoint' # Failed => Spells(endpoint', a)
      BY <3>1, <3>2, FoundIsSpelled
    <3>4. Parts(a) \subseteq Seq(Characters) /\ DefaultPort \in Seq(Characters)
      <4>1. ASSUME NEW i \in 1 .. Len(a), NEW j \in 0 .. Len(a)
            PROVE  SubSeq(a, i, j) \in Seq(Characters)
        <5>1. \A k \in i .. j : k \in 1 .. Len(a)
          BY <3>2, LenProperties
        <5>2. \A k \in i .. j : a[k] \in Characters
          BY <3>2, <5>1, ElementOfSeq
        <5> QED
          BY <5>2, SubSeqProperties
      <4>2. DefaultPort \in Seq(Characters)
        <5>1. "8" \in Characters /\ "0" \in Characters
          BY UrlAssumption
        <5> QED
          BY <5>1 DEF DefaultPort
      <4>3. ASSUME NEW s \in Parts(a) PROVE s \in Seq(Characters)
        <5>1. PICK i \in 1 .. Len(a), j \in 0 .. Len(a) : s = SubSeq(a, i, j)
          BY DEF Parts
        <5> QED
          BY <4>1, <5>1
      <4> QED
        BY <4>2, <4>3
    <3>5. endpoint' = Failed =>
            ~\E host \in Parts(a), port \in Parts(a) \cup {DefaultPort} :
               Spells([host |-> host, port |-> port], a)
      BY <3>1, <3>2, <3>4, SpelledIsFound
    <3> QED
      BY <3>1, <3>3, <3>5 DEF EndpointIsConfigured
  <2>2. CASE pc' \notin {"dial", "backoff"}
    BY <2>2 DEF EndpointIsConfigured
  <2>3. CASE pc' = pc /\ config' = config /\ endpoint' = endpoint
    BY <2>3 DEF EndpointIsConfigured
  <2>4. Dial \/ pc' \notin {"dial", "backoff"} \/ UNCHANGED <<pc, config, endpoint>>
    BY DEF Next, Help, Install, InstallFails, Parse, Signal, RunReturns, RunThrows, Exit, Goto,
       process, parsing
  <2> QED
    BY <2>1, <2>2, <2>3, <2>4
<1>3. J => EndpointIsConfigured
  OBVIOUS
<1> QED
  BY <1>1, <1>2, <1>3, InitIInv, NextIInv, PTL DEF Spec
=============================================================================
