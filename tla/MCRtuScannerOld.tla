--------------------------- MODULE MCRtuScannerOld ----------------------------
(***************************************************************************)
(* Streams and a CRC for model-checking RtuScannerOld.                     *)
(***************************************************************************)
EXTENDS RtuScannerOld, SequencesExt

MCAddress == 17

(* Depends on every byte and its place.                                    *)
ToyCrc(s) == << FoldLeft(LAMBDA acc, b : (3 * acc + b + 5) % 241, 11, s), Len(s) >>

Sealed(body) == body \o ToyCrc(body)

F3     == Sealed(<<17, 3, 0, 19, 0, 37>>)
F6     == Sealed(<<17, 6, 17, 3, 17, 8>>)
F15    == Sealed(<<17, 15, 0, 19, 0, 3, 1, 5>>)
F16    == Sealed(<<17, 16, 0, 1, 0, 1, 2, 17, 3>>)
F23    == Sealed(<<17, 23, 0, 4, 0, 6, 1, 15, 0, 1, 2, 1, 255>>)
Empty  == Sealed(<<17, 15, 0, 19, 0, 0, 0>>)      \* byte count 0
BadCrc == <<17, 16, 0, 1, 0, 2, 1, 17, 9, 9>>
BadFc  == <<17, 8>>
Alien  == Sealed(<<5, 3, 0, 17, 0, 3>>)           \* another slave's request
Noise  == <<99>>

Segments == {F3, F6, F15, F16, F23, BadCrc, BadFc, Alien, Noise}

MixedStreams ==
  {a \o b : a \in Segments, b \in Segments}
    \cup {a \o b \o c : a \in {F3, F16}, b \in {BadCrc, BadFc, Noise}, c \in {F15, F23}}

EmptyStreams == {Empty \o a : a \in Segments}
===============================================================================
