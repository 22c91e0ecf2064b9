----------------------------- MODULE MCFormats -----------------------------
(* Formats with a selection of bytes, one of each kind. *)
EXTENDS Formats

SomeBytes == [hydra |-> {13, 17, 24, 64, 92, 127, 141, 152},
              zmodem |-> {1, 13, 16, 17, 24, 42, 64, 104, 141, 152},
              garbage |-> {17, 24, 42, 107, 170},
              emsi |-> {65, 91, 92, 93, 123, 125, 200}]
Short == [hydra |-> 3, zmodem |-> 4, garbage |-> 6, emsi |-> 4]
=============================================================================
