------------------------------- MODULE MCLink -------------------------------
(* An instance of Link for TLC. *)
EXTENDS Link, SequencesExt

Frame1(channel, data) == [channel |-> channel, data |-> data]

Greeting  == Frame1(1, Hello)
Cookie    == Frame1(1, Hello \o MarshalTLV(3, <<>>) \o MarshalTLV(6, <<7, Mark>>))
Roasted   == Frame1(1, Hello \o MarshalTLV(1, <<7>>) \o MarshalTLV(2, <<>>) \o MarshalTLV(6, <<>>))
Short     == Frame1(1, <<0, 0>>)
Broken    == Frame1(1, Hello \o <<0, 6, 0, 2, 7>>)
Snac      == Frame1(2, <<0, 1, 0, 2, 0, 0, 0, 0, 0, Mark, Mark, 5>>)
ShortSnac == Frame1(2, <<0, 1>>)
SignOff   == Frame1(4, <<>>)
Alive     == Frame1(5, <<>>)

\* A sign-on and a request; an early sign-off and an old client; errors.
\* Behind them nothing, part of a frame, or a frame behind a byte that is not
\* the mark.
Dialogues == {
    << <<Cookie, Alive, Snac, SignOff, Alive>>, <<0, Mark, 5, 0, 0, 0, 0>> >>,
    << <<Greeting, SignOff, Broken, Roasted, Snac, Alive>>, <<Mark, 5, 0, 0, 1>> >>,
    << <<Cookie, ShortSnac, Short>>, <<>> >> }

Bytes(frames) == FlattenSeq([i \in DOMAIN frames |-> Encode(frames[i])])

ClientInputs ==
    { [frames |-> d[1], bytes |-> Bytes(d[1]) \o d[2],
       ends |-> [k \in DOMAIN d[1] |-> Len(Bytes(SubSeq(d[1], 1, k)))]] : d \in Dialogues }

=============================================================================
