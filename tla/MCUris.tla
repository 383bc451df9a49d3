------------------------------- MODULE MCUris -------------------------------
(***************************************************************************)
(* Uris of every form, each with every path of up to three components.     *)
(***************************************************************************)
EXTENDS Uris

Starts ==
  {<<>>, <<"s", ":">>, <<"s", ":", "/", "/", "h">>, <<"s", ":", "/", "/", "h", ":", "80">>,
   <<"/", "/", "h">>, <<"s", ":", "/", "/", "h", ":", "x">>, <<":", "h">>, <<":">>}

PathComponents == {<<>>, <<".">>, <<".", ".">>, <<"x">>, <<"x", ".">>, <<"%.", ".">>, <<"x", "%/">>}

Paths ==
  {<<>>} \cup {<<"x">>, <<"/", "%!">>}
  \cup {<<"/">> \o a : a \in PathComponents}
  \cup {<<"/">> \o a \o <<"/">> \o b : a, b \in PathComponents}
  \cup {<<"/">> \o a \o <<"/">> \o b \o <<"/">> \o c : a, b, c \in PathComponents}
  \cup {<<"x", "/">> \o a : a \in PathComponents}

Tails == {<<>>, <<"#", "f">>, <<"?", "q">>, <<"?", "q", "#", "f">>}

MCInputs == {s \o p \o t : s \in Starts, p \in Paths, t \in Tails}

MCPrefixes == {<<"/">>, <<"/", "x", "x">>}
=============================================================================
