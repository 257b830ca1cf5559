-------------------------------- MODULE MCFeed --------------------------------
(* Feed for every table of up to three entries. *)
EXTENDS Feed

Entry(fid, callsign, aircraft, expired) ==
    [flight_id |-> fid, callsign |-> callsign, aircraft |-> aircraft, expired |-> expired]

\* Flight k of the table; the third one's model has a dot in its name.
Entries(k) ==
    {Entry(k, <<"ANN", "BOB", "CAT">>[k],
           <<<<"c172">>, <<"b777">>, <<"c172", "v2">>>>[k], x) : x \in BOOLEAN}

MCTables ==
    {<<>>}
    \cup {<<a>> : a \in UNION {Entries(k) : k \in 1 .. 3}}
    \cup {<<a, b>> : a \in Entries(1), b \in Entries(2) \cup Entries(3)}
    \cup {<<a, b, c>> : a \in Entries(1), b \in Entries(2), c \in Entries(3)}
=============================================================================
