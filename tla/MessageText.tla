----------------------------- MODULE MessageText -----------------------------
(***************************************************************************)
(* How long a message may be on its way from one client to another: the    *)
(* lengths that the 04/06 request announces, the 16-bit arithmetic of its  *)
(* handler (0x04_ICBM.go), and the TLV and the frame in which the delivery *)
(* goroutine writes the text again (message_delivery_routine.go).  Only    *)
(* lengths are modelled; a client may announce any.                        *)
(***************************************************************************)
EXTENDS Codec

CONSTANTS
    Lengths,    \* 16-bit lengths
    Names       \* lengths of screen names, which have an 8-bit length

ASSUME TextAssumption ==
    /\ Lengths \subseteq 0..Word - 1
    /\ Names \subseteq 0..255

VARIABLES
    request,    \* the lengths in the request
    from,       \* the length of the sender's name
    text,       \* the length of the accepted text
    field,      \* the length of the text fragment as it is written
    stage       \* request, refused, accepted, written, toolong, panic

vars == <<request, from, text, field, stage>>

TLVLen(n) == 4 + n

\* The data of TLV 2; the lengths that it gives for its two fragments; and
\* the bytes of the other TLVs.
Requests == [to : Names, data : Lengths, caps : Lengths, frag : Lengths, others : {0, 4, 8}]

\* The cookie, the channel, the recipient and the TLVs fit in one frame.
InOneFrame(r) == SnacHeaderLen + 8 + 2 + (1 + r.to) + TLVLen(r.data) + r.others < Word

TypeOK ==
    /\ request \in Requests /\ InOneFrame(request)
    /\ from \in Names
    /\ text \in 0..Word - 1 /\ field \in 0..Word - 1
    /\ stage \in {"request", "refused", "accepted", "written", "toolong", "panic"}

Init ==
    /\ request \in Requests /\ InOneFrame(request)
    /\ from \in Names
    /\ text = 0 /\ field = 0
    /\ stage = "request"

\* Buffer.Seek on a buffer of that length: past the end nothing is left.
Seek(n, length) == IF n > length THEN 0 ELSE length - n

\* What is left of TLV 2 for the text: behind the header of the fragment of
\* capabilities and its data, the header of the text fragment, and the
\* character set.
Headers == 4
AfterCaps == Seek(request.caps, request.data - Headers)
Room == Seek(4, AfterCaps - Headers)

\* Mutant: signed arithmetic.
TextLengthSigned == request.frag - 4

\* fragmentLength-4, a uint16.
TextLength == (request.frag + Word - 4) % Word

\* Mutant: Read fills the buffer as far as it can.
ParseWhatIsThere ==
    /\ stage = "request"
    /\ IF request.data >= Headers /\ AfterCaps >= Headers
       THEN stage' = "accepted" /\ text' = Min({TextLength, Room})
       ELSE stage' = "refused" /\ UNCHANGED text
    /\ UNCHANGED <<request, from, field>>

\* Each header must be there, and as many bytes as the text needs.
Parse ==
    /\ stage = "request"
    /\ IF request.data >= Headers /\ AfterCaps >= Headers /\ TextLength <= Room
       THEN stage' = "accepted" /\ text' = TextLength
       ELSE stage' = "refused" /\ UNCHANGED text
    /\ UNCHANGED <<request, from, field>>

\* Capabilities, the header of the text fragment, the character set, the text.
FragmentsLen == 8 + 4 + 4 + text

\* Five TLVs with their count: class, status, idle time, sign-on time; TLV 2.
NoticeLen ==
    SnacHeaderLen + 8 + 2 + (1 + from) + 2
        + 2 + TLVLen(2) + 3 * TLVLen(4) + TLVLen(FragmentsLen)

\* Mutant: the length of the text without the character set.
FragmentLengthOfText == text % Word

\* uint16(len(message.Contents) + 4)
FragmentLength == (text + 4) % Word

\* Mutant: lengths are signed.
FitsSigned(n) == n < Word \div 2

\* MarshalBinary of the frame compares the length with its low 16 bits.
Fits(n) == n % Word = n

\* The goroutine builds the TLV, the SNAC and the frame.
Deliver ==
    /\ stage = "accepted"
    /\ stage' = IF TLVPanics(FragmentsLen) THEN "panic"
                ELSE IF Fits(NoticeLen) THEN "written" ELSE "toolong"
    /\ field' = FragmentLength
    /\ UNCHANGED <<request, from, text>>

Next == Parse \/ Deliver

Spec == Init /\ [][Next]_vars

-----------------------------------------------------------------------------
(***************************************************************************)
(* Properties.                                                             *)
(***************************************************************************)

\* A text that is accepted is as long as the client says, and it says at
\* least the four bytes of the character set: below four fragmentLength-4
\* wraps to more than one frame can hold (0x04:182-189).
TextAsAnnounced ==
    stage # "request" /\ stage # "refused" =>
        request.frag >= 4 /\ text = request.frag - 4

\* No text that came in one frame makes the goroutine panic in the 16-bit sum
\* of a TLV's length (tlv.go:35), and the length it writes is that of the text
\* and the character set (message_delivery_routine.go:65).
TextWritten ==
    /\ stage # "panic"
    /\ stage = "written" => field = text + 4

\* A message that was accepted, stored and acknowledged may still be too long
\* for the larger frame it is delivered in (flap.go:41-45); this is so only
\* for texts and sender names of more than 65460 (Word - 76) bytes together.
LongestText == Word - 76
OnlyLongestFail == stage = "toolong" <=> (stage \in {"written", "toolong"} /\ text + from > LongestText)

=============================================================================
