---------------------------- MODULE MCBlockHeader ----------------------------
(***************************************************************************)
(* BlockHeader with a 2-bit nVersion, two values for each header field    *)
(* the hash could confuse, and dynafed parameters whose entries differ    *)
(* in one field at a time: full entries f1, f2 (extension space), f3      *)
(* (fedpeg script) and f4 (signblockscript), the compact form of f1, and  *)
(* a compact entry elided to a root no full entry has.                    *)
(***************************************************************************)
EXTENDS BlockHeader

CONSTANTS s1, s2, x1, x2, l1, r0

MCScripts == {s1, s2}
MCExtensions == {x1, x2}

Full(sbs, fp, fs, x) ==
    [type |-> 2, signblockscript |-> sbs, witnessLimit |-> l1, fedpegProgram |-> fp,
     fedpegscript |-> fs, extension |-> x, elidedRoot |-> None]

f1 == Full(s1, s1, s1, x1)
f2 == Full(s1, s1, s1, x2)
f3 == Full(s1, s1, s2, x1)
f4 == Full(s2, s1, s1, x1)

Stray == [Compact(f1) EXCEPT !.elidedRoot = r0]

MCParamsChoices ==
    [current : {f1, f2, Compact(f1), Stray}, proposed : {NullEntry, f3, f4}]

=============================================================================
