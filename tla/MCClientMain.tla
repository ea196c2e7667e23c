---------------------------- MODULE MCClientMain ----------------------------
(***************************************************************************)
(* Words, environments and command lines for checking ClientMain: values   *)
(* on both sides of every bound, every option, and pairs of options.       *)
(***************************************************************************)
EXTENDS ClientMain, TLC

MCCharacters == {"/", ":", "a", "b", "0", "1", "8"}

MCAuthorityOf ==
  "http://" :> <<>> @@ "http:///" :> <<"/">> @@ "http://:" :> <<":">>
  @@ "http://a" :> <<"a">> @@ "http://a/" :> <<"a", "/">>
  @@ "http://a//" :> <<"a", "/", "/">> @@ "http://a/b" :> <<"a", "/", "b">>
  @@ "http://a:" :> <<"a", ":">> @@ "http://:1" :> <<":", "1">>
  @@ "http://a:1" :> <<"a", ":", "1">> @@ "http://a:1/" :> <<"a", ":", "1", "/">>
  @@ "http://a:b:1" :> <<"a", ":", "b", ":", "1">>

MCHttpUrls == DOMAIN MCAuthorityOf

MCCameraIds == {"raspberry-pi-1", "pi"}

MCIntegerOf ==
  "-1" :> -1 @@ "0" :> 0 @@ "1" :> 1 @@ "10" :> 10 @@ "29" :> 29 @@ "30" :> 30
  @@ "31" :> 31 @@ "80" :> 80 @@ "95" :> 95 @@ "96" :> 96 @@ "720" :> 720 @@ "1280" :> 1280

\* Values tried for each field; "30fps" is read up to its f, "3000000000" is
\* beyond an int.
Candidates ==
  [server_url |-> MCHttpUrls \cup {"a"}, token |-> {"secret", "other"},
   camera_id |-> {"pi", "pi/1"}, width |-> {"0", "1", "3000000000"},
   height |-> {"-1", "1"}, fps |-> {"0", "1", "30", "31", "30fps"},
   jpeg_quality |-> {"29", "30", "95", "96", "30fps"}]

MCWords ==
  {Empty, "--zoom"} \cup HelpWords \cup {Option[f] : f \in Field}
  \cup MCHttpUrls \cup MCCameraIds \cup DOMAIN MCIntegerOf
  \cup UNION {Candidates[f] : f \in Field}

Unset == [f \in Field |-> Empty]

Required == [Unset EXCEPT !.server_url = "http://a", !.token = "secret"]

\* Nothing is set; the required variables are; and one more, or one of these
\* to another value.
MCEnvironments ==
  {Unset, Required} \cup
  {[Required EXCEPT ![p[1]] = p[2]] :
     p \in UNION {{<<f, w>> : w \in Candidates[f]} : f \in Field}}

\* One pair for each field and value, and other pairs.
Pairs ==
  UNION {{<<Option[f], w>> : w \in Candidates[f] \cup {Empty}} : f \in Field}
  \cup {<<"--token", "--help">>, <<"-h", "1">>, <<"--zoom", "1">>, <<"secret", "--token">>}

Few ==
  {<<"--server", "http://a:1">>, <<"--token", "other">>, <<"--fps", "1">>, <<"--fps", "30">>,
   <<"--quality", "96">>, <<"--fps", "30fps">>}

MCCommandLines ==
  {<<>>} \cup {<<Option[f]>> : f \in Field} \cup {<<w>> : w \in HelpWords}
  \cup Pairs \cup {p \o q : p, q \in Few} \cup {p \o <<"--help">> : p \in Few}
=============================================================================
