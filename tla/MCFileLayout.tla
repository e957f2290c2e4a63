----------------------------- MODULE MCFileLayout -----------------------------
(***************************************************************************)
(* The parts of the library that say where in a file or a picture things   *)
(* stand: the marker reader on small files, the restart markers of a       *)
(* damaged scan, the lossless transforms on small pictures, and the tables *)
(* by which a compression divides.  The parts share nothing that the       *)
(* models keep; part is the one at work, and the others stand where they   *)
(* begin.                                                                  *)
(***************************************************************************)
EXTENDS MCMarkerReader, DamagedScans, LosslessTransform, DctManager

(* Pictures to be transformed, and what may be asked for. *)
Factors2(h, v) == [h |-> h, v |-> v]
SomeSamplings ==
  { << Factors2(1, 1) >>, << Factors2(2, 2) >>, << Factors2(2, 1), Factors2(1, 1) >>,
    << Factors2(2, 2), Factors2(1, 1) >>, << Factors2(1, 2), Factors2(2, 1) >>,
    << Factors2(1, 1), Factors2(1, 3) >> }

Transforms == {"none", "flip_h", "flip_v", "transpose", "transverse", "rot_90", "rot_180", "rot_270"}

Crop(size, sset, offset, oset) == [size |-> size, sset |-> sset, offset |-> offset, oset |-> oset]
NoCrop == Crop(0, "unset", 0, "unset")
Crops == { Crop(2, "pos", 2, "pos"), Crop(3, "force", 3, "pos"), Crop(2, "pos", 1, "neg"),
          Crop(3, "pos", 4, "pos"), Crop(0, "unset", 3, "pos") }

Ask(t, perfect, trim, gray, crop, cx, cy) ==
  [transform |-> t, perfect |-> perfect, trim |-> trim, gray |-> gray,
   crop |-> crop, cropx |-> cx, cropy |-> cy]

SomeRequests ==
  { Ask(t, m = "perfect", m = "trim", g, FALSE, NoCrop, NoCrop) :
      t \in Transforms, m \in {"perfect", "trim", "plain"}, g \in BOOLEAN }
    \cup { Ask(t, FALSE, m = "trim", FALSE, TRUE, c[1], c[2]) :
      t \in Transforms, m \in {"trim", "plain"},
      c \in (Crops \X {NoCrop, Crop(2, "pos", 3, "pos")}) \cup ({NoCrop} \X Crops) }

\* What the blocks rest on: changing the sign of the odd columns of coefficients
\* mirrors a block.
Basics == INSTANCE DctBasics
ASSUME MirrorAssumption ==
  \A u \in 0..7, x \in 0..7 :
    Basics!Basis(u, 7 - x, 8) = IF u % 2 = 1 THEN 0 - Basics!Basis(u, x, 8) ELSE Basics!Basis(u, x, 8)

(* Compressions: two components, every pair of sampling factors, every scale. *)
TableComp(s, t) == [h |-> s[1], v |-> s[2], tbl |-> t]
Present(n) == [t \in 0..3 |-> IF t < n THEN << 16, 255, 1 >>[t + 1] ELSE 0]
Params(comps, n, m, size, fancy) ==
  [comps |-> comps, quant |-> Present(n), method |-> m, size |-> size, fancy |-> fancy]
Factors == (1..4) \X (1..4)
Methods == { "islow", "ifast", "float" }

\* A table for each component, or one too few of them; and two components that share one.
Scales == { 1, 2, 3, 4, 5, 7, 8, 9, 16 }
TablePictures ==
  { Params(<< TableComp(a, 0), TableComp(b, 1) >>, n, m, size, fancy) :
      a \in { << 1, 1 >>, << 2, 2 >>, << 4, 2 >>, << 3, 4 >>, << 4, 4 >> }, b \in Factors, n \in 1..2, m \in Methods,
      size \in Scales, fancy \in BOOLEAN }
    \cup
  { Params(<< TableComp(<< 2, 2 >>, 0), TableComp(a, 1), TableComp(b, 1) >>, 2, m, size, fancy) :
      a, b \in { << 1, 1 >>, << 1, 2 >>, << 2, 2 >> }, m \in Methods, size \in Scales, fancy \in BOOLEAN }
ASSUME LayoutAssumption == RestartAssumption /\ TransformAssumption /\ PictureAssumption

-----------------------------------------------------------------------------
VARIABLE part
allVars == << part, readerVars, syncVars, vars, dctVars >>

\* The variables of a part that is not at work: those of the reader have no
\* value yet, the others those of one scan, picture and compression.
NoReader ==
  /\ cinfo = Null /\ marker = Null /\ inputctl = Null /\ src = Null
  /\ local = Null /\ status = Null /\ warned = Null /\ written = Null
OneScan == damage \in Whole /\ SyncInit
OneImage == image = [width |-> 4, height |-> 3, comps |-> << Factors2(1, 1) >>] /\ Init
OnePicture == pic = Params(<< TableComp(<< 1, 1 >>, 0), TableComp(<< 1, 1 >>, 1) >>, 2, "islow", 8, FALSE) /\ DctInit

LayoutInit ==
  \/ part = "reader"   /\ OneScan /\ OneImage /\ OnePicture /\ ReaderInit
  \/ part = "restart"  /\ NoReader /\ OneImage /\ OnePicture /\ SyncInit
  \/ part = "lossless" /\ NoReader /\ OneScan /\ OnePicture /\ Init
  \/ part = "divisors" /\ NoReader /\ OneScan /\ OneImage /\ DctInit

LayoutNext ==
  /\ UNCHANGED part
  /\ \/ part = "reader"   /\ ReaderNext /\ UNCHANGED << syncVars, vars, dctVars >>
     \/ part = "restart"  /\ SyncNext /\ UNCHANGED << readerVars, vars, dctVars >>
     \/ part = "lossless" /\ Next /\ UNCHANGED << readerVars, syncVars, dctVars >>
     \/ part = "divisors" /\ DctNext /\ UNCHANGED << readerVars, syncVars, vars >>

LayoutSpec == LayoutInit /\ [][LayoutNext]_allVars

\* However a file comes in pieces, what has been read of it is what it says:
\* see the five parts of this in MCMarkerReader.  The other parts' properties,
\* DamageContained, BlocksPlaced and DivisorsRight, are those of their modules.
HeadersAsWritten == part = "reader" => ReadAsWritten

\* What breaks the rules of the format is refused, and nothing else is: see
\* MCMarkerReader.
RefusesRightly == part = "reader" => RefusedAsWritten
=============================================================================
