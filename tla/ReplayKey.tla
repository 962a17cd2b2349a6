-------------------------------- MODULE ReplayKey --------------------------------
(***************************************************************************)
(* replay.key: the opaque id of a grant becomes a JetStream KV key.        *)
(*                                                                         *)
(* An id is a sequence of characters.  The alphabet is cut down to what    *)
(* the escaping tells apart: characters a key admits as they are, and      *)
(* characters replaced by a dot and two hex digits.                        *)
(***************************************************************************)
EXTENDS Naturals, Sequences

CONSTANTS Plain,    \* characters a key admits, the dot included
          HexOf     \* hexDigit of the two halves of any other character

\* What the key does not admit left out.
StripUnsafe(c) == IF c \in Plain THEN <<c>> ELSE <<>>

\* A character the key admits, or a dot and two hex digits.
EncodeChar(c) == IF c \in Plain THEN <<c>> ELSE <<".">> \o HexOf[c]

key(id) ==
    LET out[i \in 0..Len(id)] ==
          IF i = 0 THEN <<>> ELSE out[i - 1] \o EncodeChar(id[i])
    IN  out[Len(id)]
================================================================================
