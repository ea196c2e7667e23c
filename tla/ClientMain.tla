----------------------------- MODULE ClientMain -----------------------------
(***************************************************************************)
(* main of client/src/main.cpp around Config: help, signal handlers,       *)
(* configuration, run, exit code; and what run makes of the server URL, of *)
(* which parse_config looks at the first characters only.  Application     *)
(* models what run does; here it dials, returns or throws.                 *)
(***************************************************************************)
EXTENDS Config

CONSTANTS
  Characters, \* of URLs
  AuthorityOf \* what follows http:// in a URL, as a sequence of characters

ASSUME UrlAssumption ==
  /\ HttpUrls = DOMAIN AuthorityOf
  /\ \A w \in HttpUrls : AuthorityOf[w] \in Seq(Characters)
  /\ {"/", ":", "8", "0"} \subseteq Characters

VARIABLES
  pc,             \* where main is
  handled,        \* the signals whose handler is installed
  stop_requested, \* stop_requested
  endpoint,       \* what parse_server_url last returned
  exit            \* the exit code, or -1

process == <<pc, handled, stop_requested, endpoint, exit>>

Signals == {"SIGINT", "SIGTERM"}

Killed == 128 \* how a shell reports the default action of signal 0, plus its number

DefaultPort == <<"8", "0">>

Unread == [host |-> <<>>, port |-> DefaultPort] \* parse_server_url was not called yet

Failed == [host |-> <<>>, port |-> <<>>] \* parse_server_url threw

TypeOK ==
  /\ ParseTypeOK
  /\ pc \in {"help", "install", "parse", "run", "dial", "backoff", "exited"}
  /\ handled \in SUBSET Signals
  /\ stop_requested \in BOOLEAN
  /\ exit \in {-1, 0, 1, 2, Killed}

Init ==
  /\ ParseInit
  /\ pc = "help"
  /\ handled = {}
  /\ stop_requested = FALSE
  /\ endpoint = Unread
  /\ exit = -1

Exit(code) ==
  /\ pc' = "exited"
  /\ exit' = code
  /\ UNCHANGED <<handled, stop_requested, endpoint>>

Goto(place) ==
  /\ pc' = place
  /\ UNCHANGED <<handled, stop_requested, endpoint, exit>>

\* Anywhere, also where the value of an option stands.
WantsHelp == \E i \in DOMAIN argv : argv[i] \in HelpWords

Help ==
  /\ pc = "help"
  /\ IF WantsHelp THEN Exit(0) ELSE Goto("install")
  /\ UNCHANGED parsing

\* std::signal for SIGINT, then for SIGTERM.
Install ==
  /\ pc = "install"
  /\ handled' = IF handled = {} THEN {"SIGINT"} ELSE Signals
  /\ pc' = IF handled = {} THEN "install" ELSE "parse"
  /\ UNCHANGED <<parsing, stop_requested, endpoint, exit>>

InstallFails ==
  /\ pc = "install"
  /\ Exit(1)
  /\ UNCHANGED parsing

\* What parse_config throws, main catches.
Parse ==
  /\ pc = "parse"
  /\ ParseNext
  /\ CASE parse' = "accepted" -> Goto("run")
       [] parse' = "thrown" -> Exit(1)
       [] OTHER -> UNCHANGED process

\* The handler only sets the flag; a signal that comes too early kills.
Signal(s) ==
  /\ pc # "exited"
  /\ IF s \in handled
       THEN stop_requested' = TRUE /\ UNCHANGED <<pc, handled, endpoint, exit>>
       ELSE Exit(Killed)
  /\ UNCHANGED parsing

-----------------------------------------------------------------------------
(* run *)

Running == pc \in {"run", "dial", "backoff"}

Where(a, character) == {i \in DOMAIN a : a[i] = character}

First(S) == CHOOSE i \in S : \A j \in S : i <= j

\* The authority cut at its first slash.
BeforePath(a) ==
  IF Where(a, "/") = {} THEN a ELSE SubSeq(a, 1, First(Where(a, "/")) - 1)

HasPath(a) == Where(a, "/") # {} /\ First(Where(a, "/")) # Len(a)

Split(a) ==
  LET colons == Where(a, ":")
  IN  CASE colons = {} -> [host |-> a, port |-> DefaultPort]
        [] colons # {} /\ Last(colons) \in {1, Len(a)} -> Failed
        [] OTHER -> [host |-> SubSeq(a, 1, Last(colons) - 1),
                     port |-> SubSeq(a, Last(colons) + 1, Len(a))]

\* Fault: a trailing slash is allowed but not cut off.
EndpointKeepingSlash(a) == IF HasPath(a) \/ a = <<>> THEN Failed ELSE Split(a)

\* parse_server_url
Endpoint(a) ==
  IF HasPath(a) \/ BeforePath(a) = <<>> THEN Failed ELSE Split(BeforePath(a))

\* Fault: connect stands in front of the try block, and its exception reaches main.
DialUncaught ==
  /\ Running
  /\ endpoint' = Endpoint(AuthorityOf[config.server_url])
  /\ pc' = IF endpoint' = Failed THEN "exited" ELSE "dial"
  /\ exit' = IF endpoint' = Failed THEN 1 ELSE exit
  /\ UNCHANGED <<parsing, handled, stop_requested>>

\* Each connect reads the URL anew; an exception is one more lost connection.
Dial ==
  /\ Running
  /\ endpoint' = Endpoint(AuthorityOf[config.server_url])
  /\ pc' = IF endpoint' = Failed THEN "backoff" ELSE "dial"
  /\ UNCHANGED <<parsing, handled, stop_requested, exit>>

\* 0 needs a signal (ExitHasReason of Application), 2 is a camera failure.
RunReturns(code) ==
  /\ Running
  /\ code = 0 => stop_requested
  /\ Exit(code)
  /\ UNCHANGED parsing

\* random_device found no source of entropy; main calls it a configuration error.
RunThrows ==
  /\ pc = "run"
  /\ Exit(1)
  /\ UNCHANGED parsing

Next ==
  \/ Help \/ Install \/ InstallFails \/ Parse
  \/ \E s \in Signals : Signal(s)
  \/ Dial
  \/ \E code \in {0, 2} : RunReturns(code)
  \/ RunThrows

Spec == Init /\ [][Next]_<<parsing, process>>

-----------------------------------------------------------------------------
(* Properties *)

\* What an exit code lets conclude, which systemd's Restart=on-failure decides
\* by (main.cpp:84).  A client is started once its configuration is accepted and
\* both handlers are installed.
\* - Whoever asks for help gets it and nothing else, whatever else is given.
\* - 0: help, or a started client was asked to stop.
\* - 1: no server was dialled.  The handlers could not be installed, parse_config
\*   threw, or a started client found no source of entropy; the code does not
\*   tell which.
\* - 2, and the loop of run: the client was started.
\* - Death by a signal: it came before the handlers were installed.
ExitTellsWhy ==
  LET help    == \E i \in DOMAIN argv : argv[i] \in HelpWords
      started == parse = "accepted" /\ Valid(config) /\ handled = Signals
  IN  /\ help => exit \in {-1, 0, Killed} /\ ~Running
      /\ exit = 0 => help \/ (started /\ stop_requested)
      /\ exit = 1 => /\ endpoint = Unread
                     /\ handled # Signals \/ parse = "thrown" \/ started
      /\ exit = 2 \/ Running => started
      /\ exit = Killed => handled # Signals

\* host, host:port, either with a slash behind it.
Spells(e, a) ==
  LET plain == e.port = DefaultPort /\ Where(e.host, ":") = {} /\ a \in {e.host, e.host \o <<"/">>}
      both  == e.host \o <<":">> \o e.port
  IN  /\ e.host # <<>> /\ Where(e.host, "/") = {}
      /\ plain \/ (/\ e.port # <<>>
                   /\ Where(e.port, ":") = {} /\ Where(e.port, "/") = {}
                   /\ a \in {both, both \o <<"/">>})

Parts(a) == {SubSeq(a, i, j) : i \in 1 .. Len(a), j \in 0 .. Len(a)}

\* The client dials the host and port its URL spells, and fails to only if the
\* URL spells none; then it goes on trying, because run takes the exception for
\* a lost connection and validate did not look behind http://.
EndpointIsConfigured ==
  LET a == AuthorityOf[config.server_url]
  IN  /\ pc = "dial" => Spells(endpoint, a)
      /\ pc = "backoff" =>
           ~\E host \in Parts(a), port \in Parts(a) \cup {DefaultPort} :
              Spells([host |-> host, port |-> port], a)
=============================================================================
