--------------------------------- MODULE Codecs ---------------------------------
(***************************************************************************)
(* The codecs of k_decoders and the sizes wasm/shim.c allocates around them. *)
(***************************************************************************)

\* The size of each codec's object.
decoderObjSize ==
  [ BMP |-> 3288, ETC2 |-> 5264, GIF |-> 64960, HNSM |-> 2456, JPEG |-> 16400,
    NIE |-> 160, NPBM |-> 112, PNG |-> 44488, QOI |-> 8600, TGA |-> 2232,
    TH |-> 4504, WBMP |-> 120, WEBP |-> 3239168 ]

Formats == DOMAIN decoderObjSize

BUMP_LIMIT                           == 4194304
WUFFS_WASM_METADATA_HAVE_LEN         == 1048576
WUFFS_WASM_METADATA_ICC_CAP          == 1048576
WUFFS_WASM_METADATA_PACK_HEADER_SIZE == 88

=============================================================================
