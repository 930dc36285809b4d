------------------------------ MODULE MCUISqrt -------------------------------
(* uisqrt on small numbers, around powers of two, and on squares and their *)
(* neighbours as far as TLC's integers reach. *)
EXTENDS UISqrt

Near(m) == {m - 1, m, m + 1}

MCInputs ==
    (0..600)
      \cup UNION {Near(2^k) : k \in 9..30}
      \cup UNION {Near(k * k) : k \in {255, 256, 257, 4095, 4096, 5000, 40000, 46339}}

=============================================================================
