------------------------------- MODULE Config -------------------------------
(***************************************************************************)
(* parse_config of client/src/config.cpp: defaults, environment and        *)
(* arguments merged into one Config and validated, or an exception.        *)
(*                                                                         *)
(* A word is a string of the environment or of argv; what the code asks of *)
(* its characters is given by sets of words.  A number in Config is        *)
(* represented by the word it was read from: IntegerOf is its value.       *)
(***************************************************************************)
EXTENDS Integers, Sequences

CONSTANTS
  Words,        \* the strings that occur
  Empty,        \* the empty string; an unset variable is read like it
  HttpUrls,     \* words that start with http://
  CameraIds,    \* words that pass valid_camera_id
  IntegerOf,    \* what from_chars makes of the words it reads to the end as
                \* an int; other words, also beyond the int's range, fail
  Environments, \* the environments and ...
  CommandLines  \* ... argument lists (argv without argv[0]) considered

Text == {"server_url", "token", "camera_id"}
Number == {"width", "height", "fps", "jpeg_quality"}
Field == Text \cup Number

Numerals == DOMAIN IntegerOf

Defaults ==
  [server_url |-> Empty, token |-> Empty, camera_id |-> "raspberry-pi-1",
   width |-> "1280", height |-> "720", fps |-> "10", jpeg_quality |-> "80"]

Option ==
  [server_url |-> "--server", token |-> "--token", camera_id |-> "--camera-id",
   width |-> "--width", height |-> "--height", fps |-> "--fps",
   jpeg_quality |-> "--quality"]

HelpWords == {"--help", "-h"}

\* What a Config can hold.
Configs == {c \in [Field -> Words] : \A f \in Number : c[f] \in Numerals}

ASSUME ConfigAssumption ==
  /\ Numerals \subseteq Words
  /\ \A w \in Numerals : IntegerOf[w] \in Int
  /\ Defaults \in Configs
  /\ Environments \subseteq [Field -> Words]
  /\ CommandLines \subseteq Seq(Words)

VARIABLES
  environment, \* the value of each field's variable
  argv,        \* the arguments
  index,       \* the next argument to read
  config,      \* config
  parse        \* "environment", "arguments", "accepted" or "thrown"

parsing == <<environment, argv, index, config, parse>>

ParseTypeOK ==
  /\ environment \in Environments
  /\ argv \in CommandLines
  /\ index \in 1 .. Len(argv) + 1
  /\ config \in Configs
  /\ parse \in {"environment", "arguments", "accepted", "thrown"}

ParseInit ==
  /\ environment \in Environments
  /\ argv \in CommandLines
  /\ index = 1
  /\ config = Defaults
  /\ parse = "environment"

\* parse_integer does not throw.
Readable(f, w) == f \in Number => w \in Numerals

Throw ==
  /\ parse' = "thrown"
  /\ UNCHANGED <<environment, argv, index, config>>

-----------------------------------------------------------------------------
(* The environment *)

IsSet(f) == environment[f] # Empty

FromEnvironment(f) == IF IsSet(f) THEN environment[f] ELSE Defaults[f]

ReadEnvironment ==
  /\ parse = "environment"
  /\ \A f \in Field : IsSet(f) => Readable(f, environment[f])
  /\ config' = [f \in Field |-> FromEnvironment(f)]
  /\ parse' = "arguments"
  /\ UNCHANGED <<environment, argv, index>>

\* A malformed number throws, also if an argument would override it.
RefuseEnvironment ==
  /\ parse = "environment"
  /\ \E f \in Field : IsSet(f) /\ ~Readable(f, environment[f])
  /\ Throw

-----------------------------------------------------------------------------
(* The arguments, in pairs *)

\* The pair at index sets field f.
Sets(f) == index < Len(argv) /\ argv[index] = Option[f]

\* Faults: what stopped from_chars is not looked at; a repeated option is ignored.
ReadOptionUnchecked(f) ==
  /\ parse = "arguments"
  /\ Sets(f)
  /\ config' = [config EXCEPT ![f] = argv[index + 1]]
  /\ index' = index + 2
  /\ UNCHANGED <<environment, argv, parse>>

ReadOptionFirstWins(f) ==
  /\ parse = "arguments"
  /\ Sets(f) /\ Readable(f, argv[index + 1])
  /\ config' = IF config[f] = FromEnvironment(f)
                 THEN [config EXCEPT ![f] = argv[index + 1]] ELSE config
  /\ index' = index + 2
  /\ UNCHANGED <<environment, argv, parse>>

ReadOption(f) ==
  /\ parse = "arguments"
  /\ Sets(f) /\ Readable(f, argv[index + 1])
  /\ config' = [config EXCEPT ![f] = argv[index + 1]]
  /\ index' = index + 2
  /\ UNCHANGED <<environment, argv, parse>>

\* A help word, an option without value, an unknown one, or no integer.
RefuseArgument ==
  /\ parse = "arguments"
  /\ index <= Len(argv)
  /\ ~\E f \in Field : Sets(f) /\ Readable(f, argv[index + 1])
  /\ Throw

-----------------------------------------------------------------------------
Valid(c) ==
  /\ c.server_url \in HttpUrls
  /\ c.token # Empty
  /\ c.camera_id \in CameraIds
  /\ IntegerOf[c.width] > 0 /\ IntegerOf[c.height] > 0
  /\ IntegerOf[c.fps] \in 1 .. 30
  /\ IntegerOf[c.jpeg_quality] \in 30 .. 95

Validate ==
  /\ parse = "arguments"
  /\ index > Len(argv)
  /\ parse' = IF Valid(config) THEN "accepted" ELSE "thrown"
  /\ UNCHANGED <<environment, argv, index, config>>

ParseNext ==
  \/ ReadEnvironment \/ RefuseEnvironment
  \/ \E f \in Field : ReadOption(f)
  \/ RefuseArgument
  \/ Validate

ParseSpec == ParseInit /\ [][ParseNext]_parsing

-----------------------------------------------------------------------------
(* Properties *)

Last(S) == CHOOSE i \in S : \A j \in S : j <= i

\* Where an option stands if the arguments are read in pairs.
Odd(n) == {i \in 1 .. n : i % 2 = 1}

\* Environment and arguments are well formed: numbers where numbers belong,
\* and pairs of a known option and its value.
WellFormed ==
  /\ \A f \in Field : IsSet(f) => Readable(f, environment[f])
  /\ Len(argv) % 2 = 0
  /\ \A i \in Odd(Len(argv)) :
       \E f \in Field : argv[i] = Option[f] /\ Readable(f, argv[i + 1])

\* Where the first n arguments set field f.
Given(f, n) == {i \in Odd(n) : argv[i] = Option[f]}

\* The last pair that sets f, before the environment, before the default.
Merged(n) ==
  [f \in Field |-> IF Given(f, n) = {} THEN FromEnvironment(f)
                   ELSE argv[Last(Given(f, n)) + 1]]

\* config.hpp:30: arguments before environment before defaults, and a Config
\* that was returned is valid.  Nothing else is refused: an exception means
\* that something given is malformed or the merged values are out of range.
ParsedAsDocumented ==
  /\ parse = "accepted" =>
       WellFormed /\ config = Merged(Len(argv)) /\ Valid(config)
  /\ parse = "thrown" => ~WellFormed \/ ~Valid(Merged(Len(argv)))
=============================================================================
