---------------------------- MODULE MCConnections ----------------------------
(* A client that pipelines, waits for more, asks for the connection to be      *)
(* closed, or is refused; and two clients at the same time.                    *)
EXTENDS Connections

R(uri, head, body, keep) ==
    [uri |-> uri, head |-> head, body |-> body, keep |-> keep, expects |-> FALSE, wrong |-> "none"]
Wrong(what, r) == [r EXCEPT !.wrong = what]
Expects(r) == [r EXCEPT !.expects = TRUE]

Json == R("/flights.json", 1, 0, TRUE)
Once == R("/flights.json", 1, 0, FALSE)
Info == R("/info", 1, 0, TRUE)
Posted == R("/info", 1, 1, TRUE)
Long == R("other", 3, 0, TRUE)

Alone ==
    {<<Once, Info>>, <<Expects(Posted), Json>>, <<Long>>, <<R("*", 1, 0, TRUE)>>,
     <<Wrong("garbled", Json)>>, <<Wrong("malformed", Json), Info>>,
     <<Wrong("version", Posted), Info>>, <<Json, Posted, Once>>}

\* One that stays and one that is refused, at the same time.
Together == [A |-> <<Json>>, B |-> <<Wrong("garbled", Info)>>]

MCScripts == {Together} \cup {[A |-> s, B |-> <<>>] : s \in Alone}
=============================================================================
