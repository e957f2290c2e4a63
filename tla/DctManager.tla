------------------------------ MODULE DctManager ------------------------------
(***************************************************************************)
(* How the compressor chooses a DCT for each component: initial_setup        *)
(* (jcmaster.c) gives a component that is sampled more coarsely than others  *)
(* a larger DCT in place of downsampling, and start_pass_fdctmgr             *)
(* (jcdctmgr.c) then takes the routine for that size and computes the        *)
(* divisors of the component's quantization table for it.  The divisors      *)
(* belong to the table, not to the component.                               *)
(***************************************************************************)
EXTENDS Integers, Sequences, FiniteSetsExt

CONSTANT Pictures   \* what is asked for: [comps, quant, method, size, fancy]

DCTSIZE == 8
Tables == 0..3                   \* NUM_QUANT_TBLS

\* Any components with sampling factors that initial_setup accepts, any of the scales
\* that jpeg_calc_jpeg_dimensions chooses from; a table that is missing is 0.
PictureAssumption ==
  \A p \in Pictures :
    /\ p.comps \in Seq([h : 1..4, v : 1..4, tbl : Nat]) /\ p.comps # << >>
    /\ p.quant \in [Tables -> Nat] /\ p.method \in { "islow", "ifast", "float" }
    /\ p.size \in 1..16 /\ p.fancy \in BOOLEAN

AanScales == << 16384, 22725 >>  \* aanscales of the DC and of one AC coefficient

VARIABLES pic,        \* the parameters of the compression
          state,      \* "setup", "starting", "ready" or "refused"
          dct,        \* DCT_h_scaled_size and DCT_v_scaled_size of each component
          ci, method, \* the component at hand of start_pass_fdctmgr, and its local variable
          routine,    \* do_dct or do_float_dct of each component seen so far, and forward_DCT
          divisors,   \* divisors[], << >> for one that is not allocated
          floatDivisors
dctVars == << pic, state, dct, ci, method, routine, divisors, floatDivisors >>

Comps == DOMAIN pic.comps
MaxHSamp == Max({ pic.comps[c].h : c \in Comps })
MaxVSamp == Max({ pic.comps[c].v : c \in Comps })

\* The loops over ssize: the DCT doubles while that saves downsampling by two.
ScaledSize(max, samp) ==
  LET limit == IF pic.fancy THEN DCTSIZE ELSE DCTSIZE \div 2
      size[s \in Nat] == IF pic.size * s <= limit /\ max % (samp * s * 2) = 0 THEN size[2 * s] ELSE pic.size * s
  IN size[1]
AtMostTwo(h, v) == IF h > v * 2 THEN << v * 2, v >> ELSE IF v > h * 2 THEN << h, h * 2 >> ELSE << h, v >>
MasterSetup ==
  /\ state = "setup" /\ state' = "starting"
  /\ dct' = [c \in Comps |-> AtMostTwo(ScaledSize(MaxHSamp, pic.comps[c].h), ScaledSize(MaxVSamp, pic.comps[c].v))]
  /\ UNCHANGED << pic, ci, method, routine, divisors, floatDivisors >>

\* The sizes that jfdctint.c has a routine for, besides that of DCTSIZE.
Scaled == { << s, s >> : s \in 1..16 } \cup { << 2 * s, s >> : s \in 1..8 } \cup { << s, 2 * s >> : s \in 1..8 }

\* Faulty variant: a scaled routine leaves the method as it was.
MethodOfStale(c) == IF dct[c] = << DCTSIZE, DCTSIZE >> THEN pic.method ELSE method
MethodOf(c) == IF dct[c] = << DCTSIZE, DCTSIZE >> THEN pic.method ELSE "islow"

\* (DCTELEM) quantval << 3, and DESCALE(quantval * aanscales, 14 - 3).
Divisors(m, q) ==
  [i \in DOMAIN AanScales |-> IF m = "islow" THEN q * 8 ELSE (q * AanScales[i] + 1024) \div 2048]

Refused(c) == dct[c] \notin Scaled \/ pic.comps[c].tbl \notin Tables \/ pic.quant[pic.comps[c].tbl] = 0
StartComponent ==
  /\ state = "starting" /\ ci <= Len(pic.comps) /\ ~Refused(ci)
  /\ LET m == MethodOf(ci)  t == pic.comps[ci].tbl IN
     /\ method' = m
     /\ routine' = Append(routine, << m, dct[ci] >>)
     /\ divisors' = IF m = "float" THEN divisors ELSE [divisors EXCEPT ![t] = Divisors(m, pic.quant[t])]
     /\ floatDivisors' = IF m = "float" THEN [floatDivisors EXCEPT ![t] = << pic.quant[t] >>] ELSE floatDivisors
  /\ ci' = ci + 1
  /\ UNCHANGED << pic, state, dct >>
RefuseComponent ==
  /\ state = "starting" /\ ci <= Len(pic.comps) /\ Refused(ci)
  /\ state' = "refused"
  /\ UNCHANGED << pic, dct, ci, method, routine, divisors, floatDivisors >>
EndStartPass ==
  /\ state = "starting" /\ ci > Len(pic.comps)
  /\ state' = "ready"
  /\ UNCHANGED << pic, dct, ci, method, routine, divisors, floatDivisors >>

\* jinit_forward_dct marks the divisors unallocated.
DctInit ==
  /\ pic \in Pictures /\ state = "setup" /\ dct = << >> /\ ci = 1 /\ method = "none" /\ routine = << >>
  /\ divisors = [t \in Tables |-> << >>] /\ floatDivisors = [t \in Tables |-> << >>]
DctNext == MasterSetup \/ StartComponent \/ RefuseComponent \/ EndStartPass
DctSpec == DctInit /\ [][DctNext]_dctVars
-----------------------------------------------------------------------------
\* When the pass begins, what forward_DCT divides the coefficients of each
\* component by is its quantization table, scaled for its own DCT routine,
\* whatever the components after it asked for; unless one of these shares the
\* table, which is kept in one place, and wants it scaled in the other way.
OwnMethod(c) == IF dct[c] = << DCTSIZE, DCTSIZE >> THEN pic.method ELSE "islow"
Overwritten(c) ==
  \E d \in Comps : /\ d > c /\ pic.comps[d].tbl = pic.comps[c].tbl
                    /\ { OwnMethod(c), OwnMethod(d) } = { "islow", "ifast" }
OwnDivisors ==
  state = "ready" => \A c \in Comps : ~Overwritten(c) =>
    LET t == pic.comps[c].tbl IN
    IF OwnMethod(c) = "float" THEN floatDivisors[t] = << pic.quant[t] >>
    ELSE divisors[t] = Divisors(OwnMethod(c), pic.quant[t])

\* Whatever sampling factors and scale, the size chosen is one there is a
\* routine for: only a missing table is refused.
RefusedRightly ==
  state = "refused" => \E c \in Comps : pic.comps[c].tbl \notin Tables \/ pic.quant[pic.comps[c].tbl] = 0

\* A larger DCT never makes the downsampler's ratio fractional: where it had
\* to take max_h / h samples to one, what is left to do is a whole number too.
WholeRatios ==
  state # "setup" => \A c \in Comps :
    LET f == pic.comps[c] IN
    /\ MaxHSamp % f.h = 0 => MaxHSamp % (f.h * (dct[c][1] \div pic.size)) = 0
    /\ MaxVSamp % f.v = 0 => MaxVSamp % (f.v * (dct[c][2] \div pic.size)) = 0

\* All of these.
DivisorsRight == OwnDivisors /\ RefusedRightly /\ WholeRatios
=============================================================================
