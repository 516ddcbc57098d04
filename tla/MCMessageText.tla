---------------------------- MODULE MCMessageText ----------------------------
(* An instance of MessageText for TLC: lengths around every limit. *)
EXTENDS MessageText

Boundaries ==
    {0, 3, 4, 5, 8, 11, 12, 13, 32767, 32790}
        \cup {65448, 65449, 65460, 65461, 65463, 65464, 65471, 65472, 65475, 65476}
        \cup {65494, 65501, 65502, 65509, 65510, 65535}

Screen == {1, 16}

=============================================================================
