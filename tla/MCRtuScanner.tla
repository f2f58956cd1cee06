----------------------------- MODULE MCRtuScanner -----------------------------
(***************************************************************************)
(* Streams, a CRC and portion sizes for model-checking RtuScanner.         *)
(***************************************************************************)
EXTENDS RtuScanner, SequencesExt

MCAddress == 17

(* Any function that depends on every byte and its place will do.          *)
ToyCrc(s) == << FoldLeft(LAMBDA acc, b : (2 * acc + b + 1) % 251, 7, s), Len(s) >>

Sealed(body) == body \o ToyCrc(body)

F3     == Sealed(<<17, 3, 0, 19, 0, 37>>)
F6     == Sealed(<<17, 6, 17, 3, 17, 8>>)         \* full of addresses
F15    == Sealed(<<17, 15, 0, 19, 0, 0, 0>>)      \* byte count 0
F16    == Sealed(<<17, 16, 0, 1, 0, 1, 2, 17, 3>>)
F23    == Sealed(<<17, 23, 0, 4, 0, 6, 1, 15, 0, 1, 1, 255>>)
BadCrc == <<17, 6, 0, 1, 0, 2, 9, 9>>
BadFc  == <<17, 8>>
Alien  == Sealed(<<5, 3, 0, 7, 0, 3>>)            \* another slave's request
Tricky == Sealed(<<5, 3, 0, 17, 0, 3>>)           \* the same, with our address in it
Noise  == <<99>>
Lone   == <<17>>                                  \* an address and nothing more

Segments == {F3, F6, F15, F16, F23, BadCrc, BadFc, Alien, Tricky, Noise, Lone}

(* Every pair, and around a nonsense segment something before and after.   *)
MixedStreams ==
  {a \o b : a \in Segments, b \in Segments}
    \cup {a \o b \o c : a \in {F3, Noise}, b \in {BadCrc, BadFc, Lone}, c \in {F3, F15}}
===============================================================================
