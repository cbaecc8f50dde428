-------------------------------- MODULE MCSniff --------------------------------
(***************************************************************************)
(* Every signature with any one byte of it changed to a byte of interest,    *)
(* every Handsum header, TGA headers with each field on both sides of each     *)
(* check, and WBMP headers whose integers have up to five groups.              *)
(***************************************************************************)
EXTENDS Sniff

\* Bytes at which some test changes its mind, and ones that all refuse.
Pivots == {0, 1, 2, 13, 32, 49, 52, 54, 55, 57, 65, 66, 69, 77, 80, 128, 195, 254, 255}

Representative == { <<66, 77, 0>>, <<137, 80, 78, 71, 13, 10, 26, 10, 0>>,
                    <<255, 216, 255, 224>>, <<71, 73, 70, 56, 57, 97, 1>>,
                    <<82, 73, 70, 70, 36, 0, 0, 0, 87, 69, 66, 80, 86>>,
                    <<113, 111, 105, 102, 0>>, <<110, 195, 175, 69, 255>>,
                    <<80, 53, 10, 49>>, <<80, 54, 35>>, <<80, 75, 77, 32, 49>>,
                    <<195, 190, 254, 1>> }

\* The header as it is but for any byte at one position.
Deviations(bytes) ==
  {[i \in DOMAIN bytes |-> IF i = p THEN Pivots \cup {bytes[i]} ELSE {bytes[i]}] :
     p \in DOMAIN bytes}

HandsumHeaders == { <<{253, 254}, {213, 214, 215}, Byte, {0}>> }

\* Indexed, true color and grayscale, and the header each magic has.
TGAHeaders ==
  { <<{0, 255}, {0, 1}, {1, 9, 10}, {0}, {0}, {0, 1}, {0, 1}, {15, 23}, {0}, {0}, {0}, {0},
      {0, 1}, {0}, {1}, {0}, {8}, {0, 16, 32}, {0}>>,
    <<{0}, {0, 1}, {2, 3, 4}, {0, 1}, {0, 1}, {0}, {0}, {0, 24}, {0}, {0}, {0}, {0},
      {160}, {0}, {120}, {0}, {8, 15, 24, 32}, {0, 8, 32, 40, 64}, {0}>>,
    <<{0}, {1}, {1}, {0}, {0}, {0}, {1}, {24}, {0}, {0}, {0}, {0},
      {160}, {0}, {120}, {0}, {8}, {32}, {0}>>,
    <<{0}, {0}, {2, 11}, {0}, {0}, {0}, {0}, {0}, {0}, {0}, {0}, {0},
      {160}, {0}, {120}, {0}, {8, 24}, {32, 33}, {0}>> }

\* 127 ends a dimension; 87 FF FF 7F is the largest, 88 80 80 00 one more.
Groups == {0, 127, 128, 135, 136, 255}

WBMPHeaders ==
  { <<{0}, {0}, Groups, Groups, Groups, Groups, Groups, {5, 128}>>,
    <<{0, 1}, {0, 1}, {30}, Groups, Groups, Groups, Groups, {5, 128}>>,
    <<{0}, {0}, {30, 129}, {20, 32}, {0, 120}, {0}>> }

MCTemplates ==
  UNION {Deviations(bytes) : bytes \in Representative}
    \cup HandsumHeaders \cup TGAHeaders \cup WBMPHeaders

=============================================================================
