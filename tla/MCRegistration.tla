----------------------------- MODULE MCRegistration -----------------------------
(***************************************************************************)
(* Two goroutines and a catalog of three magics, two of them of one format   *)
(* as for NPBM, TGA and WBMP, beside a rival that registers one of them too.  *)
(***************************************************************************)
EXTENDS Registration

MCCatalog ==
  << [name |-> "gif", magic |-> "GIF8"], [name |-> "npbm", magic |-> "P5"],
     [name |-> "npbm", magic |-> "P6"] >>

\* The standard library's image/gif.
MCRivals == { [name |-> "gif", magic |-> "GIF8?a"] }

\* "GIF88a" has the catalog's magic but not the guest's; "text" has none.
MCMatches ==
  { <<"GIF8", "gif">>, <<"GIF8?a", "gif">>, <<"GIF8", "gif88">>, <<"GIF8?a", "gif88">>,
    <<"P6", "ppm">> }

MCFound == [gif |-> "GIF", gif88 |-> "ErrUnknownFormat", ppm |-> "NPBM"]

=============================================================================
