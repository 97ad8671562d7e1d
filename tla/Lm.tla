--------------------------------- MODULE Lm ---------------------------------
(***************************************************************************)
(* The Levenberg-Marquardt driver of calibration/lm.hpp: calibrate_with,   *)
(* lm_normal_equations and the damping search Lmpar::run, every loop       *)
(* iteration a step.                                                       *)
(*                                                                         *)
(* The unknown is one coordinate on an integer grid and the problem is a   *)
(* table of residual norms over it, so that which points are better, worse *)
(* or not a number is data and every comparison the code makes of norms is *)
(* made here.  A step's length and the region's radius are in grid units;  *)
(* a radius of 0 is one below the grid, within xtol of every x but 0.      *)
(* Damping parameters are integers, with the value that makes the step's   *)
(* length the radius (root) chosen afresh for each search.                 *)
(***************************************************************************)
EXTENDS Integers, FiniteSets

CONSTANTS
  Coordinates,  \* the points of the grid
  Problems,     \* records [seed, norm, rows]: x0, the residual norm of each point and m
  NKnots,       \* n
  Factor,       \* LmParams::factor, the first radius over ||D x||
  MaxFev,       \* LmParams::maxfev
  MaxTrials,    \* the damping search's limit (10 in the code)
  MaxPar,       \* bound on damping parameters
  Spread        \* one level of residual over the pull of the anchor rows

NaN == -1

ASSUME LmAssumption ==
  /\ Coordinates \subseteq Int
  /\ NKnots \in Nat \ {0}
  /\ Factor \in Nat \ {0} /\ MaxFev \in Nat \ {0}
  /\ MaxTrials \in Nat \ {0} /\ MaxPar \in Nat \ {0} /\ Spread \in Nat \ {0}
  /\ \A p \in Problems : /\ p.seed \in Coordinates
                         /\ p.rows \in Nat
                         /\ p.norm \in [Coordinates -> Nat \cup {NaN}]
  /\ \A a, b \in Coordinates : a - b < Spread  \* the pull never outweighs a level of residual

VARIABLES
  problem,     \* the engine and the seed calibrate_with was called with
  pc,          \* where the driver is
  anchored,    \* TRUE in the re-solve that has the anchor rows
  x, fnorm,    \* the current point and its norm over the rows of this solve
  jacobianAt,  \* the point J was last taken at
  delta, par,  \* the region's radius and the damping parameter
  gnorm,       \* the scaled gradient at the last Jacobian: 0, 1 (at most eps) or 2
  search,      \* Lmpar::run: the bracket, the trial count and where the root is
  pnorm,       \* the length of the step the search returned
  nfev, iters, \* evaluations and accepted steps of this solve
  info,        \* what lm_normal_equations returned
  res          \* CalibrationResult
vars == <<problem, pc, anchored, x, fnorm, jacobianAt, delta, par, gnorm, search, pnorm, nfev, iters, info, res>>

Abs(a) == IF a < 0 THEN -a ELSE a
Least(a, b) == IF a < b THEN a ELSE b
Greatest(a, b) == IF a < b THEN b ELSE a

(* The norm over the instrument rows, and over those with the rows         *)
(* w (x - x0) under them: w is so small that the pull only orders points   *)
(* of equal residual.                                                      *)
Norm(p, a, y) ==
  IF p.norm[y] = NaN THEN NaN
  ELSE Spread * p.norm[y] + (IF a THEN Abs(y - p.seed) ELSE 0)

Rows(a) == IF a THEN problem.rows + NKnots ELSE problem.rows

Idle == [parl |-> 0, paru |-> 0, root |-> 0, par |-> 0, it |-> 0, under |-> FALSE]

----------------------------------------------------------------------------
(* A call of lm_normal_equations from the seed: a problem with fewer rows  *)
(* than knots is refused as improper input.                                *)
StartSolve(a) ==
  /\ anchored' = a /\ x' = problem.seed /\ fnorm' = Norm(problem, a, problem.seed)
  /\ nfev' = 1 /\ iters' = 0 /\ delta' = 0 /\ par' = 0
  /\ IF Rows(a) < NKnots THEN pc' = "solved" /\ info' = 0
                         ELSE pc' = "pass" /\ UNCHANGED info

Init ==
  /\ problem \in Problems /\ pc = "seed" /\ anchored = FALSE
  /\ x = problem.seed /\ fnorm = 0 /\ jacobianAt = problem.seed
  /\ delta = 0 /\ par = 0 /\ gnorm = 0 /\ search = Idle /\ pnorm = 0 /\ nfev = 0 /\ iters = 0 /\ info = -2
  /\ res = [info |-> -2, iterations |-> 0, deficiency |-> 0, rms |-> NaN, converged |-> FALSE]

(* require_finite_residual throws on a quote that is not a number.         *)
RefuseSeed ==
  /\ pc = "seed" /\ problem.norm[problem.seed] = NaN
  /\ pc' = "refused"
  /\ UNCHANGED <<problem, anchored, x, fnorm, jacobianAt, delta, par, gnorm, search, pnorm, nfev, iters, info, res>>

FirstSolve ==
  /\ pc = "seed" /\ problem.norm[problem.seed] # NaN
  /\ StartSolve(FALSE)
  /\ UNCHANGED <<problem, jacobianAt, gnorm, search, pnorm, res>>

(* One Jacobian per pass; the first opens the region; a zero gradient, as  *)
(* at a zero residual, ends the solve.                                     *)
Pass ==
  /\ pc = "pass"
  /\ jacobianAt' = x
  /\ delta' = IF iters > 0 THEN delta ELSE IF x = 0 THEN Factor ELSE Factor * Abs(x)
  /\ gnorm' \in IF fnorm = 0 THEN {0} ELSE 0 .. 2
  /\ \/ gnorm' = 0 /\ pc' = "solved" /\ info' = 4
     \/ gnorm' > 0 /\ pc' = "region" /\ UNCHANGED info
  /\ UNCHANGED <<problem, anchored, x, fnorm, par, search, pnorm, nfev, iters, res>>

----------------------------------------------------------------------------
(* The lengths a step from x can have, rounded to the grid; those that fit *)
(* the region, and the longest that does.                                  *)
Lengths == {Abs(y - x) : y \in Coordinates}
Fitting == {len \in Lengths : len <= delta}
AtRadius == {len \in Fitting : \A other \in Fitting : other <= len}
Longer == {len \in Lengths : \A other \in Fitting : other <= len}

(* Lmpar::run.  The Gauss-Newton step is the answer when it fits.          *)
GaussNewtonFits ==
  /\ pc = "region"
  /\ par' = 0 /\ pnorm' \in Fitting
  /\ pc' = "trial"
  /\ UNCHANGED <<problem, anchored, x, fnorm, jacobianAt, delta, gnorm, search, nfev, iters, info, res>>

(* Otherwise some damping in the bracket brings its length to the radius:  *)
(* a Newton step from 0 bounds it from below when J has full rank, the     *)
(* gradient over the radius from above.  The last call's parameter is      *)
(* clamped to the bracket.  A deficient J may have its root at 0, where    *)
(* every damped step fits.                                                 *)
OpenSearch ==
  /\ pc = "region"
  /\ \E parl, root \in 0 .. MaxPar, paru \in 1 .. MaxPar :
       /\ parl <= root /\ root <= paru
       /\ LET clamped == Least(Greatest(par, parl), paru)
              start   == IF clamped = 0 THEN paru ELSE clamped
          IN search' = [parl |-> parl, paru |-> paru, root |-> root, par |-> start, it |-> 1, under |-> FALSE]
  /\ pc' = "search"
  /\ UNCHANGED <<problem, anchored, x, fnorm, jacobianAt, delta, par, gnorm, pnorm, nfev, iters, info, res>>

(* The damped step of the current trial is within 10% of the radius at the *)
(* root and perhaps next to it, longer before and shorter after.  The      *)
(* search settles on it, on a second short step that is no longer than the *)
(* first while the bracket is open at 0, or on what the last trial gives.  *)
SettleSearch ==
  /\ pc = "search"
  /\ \/ Abs(search.par - search.root) <= 1 /\ pnorm' \in AtRadius
     \/ /\ search.parl = 0 /\ search.under /\ search.par > search.root
        /\ pnorm' \in Fitting
     \/ /\ search.it = MaxTrials
        /\ pnorm' \in IF search.par < search.root THEN Longer ELSE Fitting
  /\ par' = search.par /\ search' = Idle /\ pc' = "trial"
  /\ UNCHANGED <<problem, anchored, x, fnorm, jacobianAt, delta, gnorm, nfev, iters, info, res>>

\* Mutant: every trial moves the upper end, the long ones too.
NarrowBothSides(s, newton) ==
  LET parl == IF s.par < s.root THEN Greatest(s.parl, s.par) ELSE s.parl
  IN [s EXCEPT !.parl = parl, !.paru = s.par, !.it = @ + 1, !.under = s.par > s.root,
               !.par = Greatest(1, Greatest(parl, newton))]

(* Newton on the secular equation from either side lands at or before the  *)
(* root (the reciprocal of the length is concave in the parameter), and    *)
(* from below gains at least a tenth of the parameter, perhaps none on     *)
(* this grid.                                                              *)
Narrow(s, newton) ==
  LET parl == IF s.par < s.root THEN Greatest(s.parl, s.par) ELSE s.parl
      paru == IF s.par < s.root THEN s.paru ELSE Least(s.paru, s.par)
  IN [s EXCEPT !.parl = parl, !.paru = paru, !.it = @ + 1, !.under = s.par > s.root,
               !.par = Greatest(1, Greatest(parl, newton))]

NextTrial ==
  /\ pc = "search" /\ search.it < MaxTrials /\ search.par # search.root
  /\ \E newton \in 0 .. search.root :
       /\ search.par < search.root => newton >= search.par
       /\ search' = Narrow(search, newton)
  /\ UNCHANGED <<problem, pc, anchored, x, fnorm, jacobianAt, delta, par, gnorm, pnorm, nfev, iters, info, res>>

----------------------------------------------------------------------------
(* The trial of a step.  ratio is actred over prered in classes: 0 below   *)
(* 1e-4 (and every step that does not reduce the norm), 1 up to 0.25, 2,   *)
(* 3 from 0.75 to 2, 4 beyond.                                             *)
Reduces(f1) == f1 # NaN /\ f1 < fnorm

Ratios(f1) == IF Reduces(f1) THEN 0 .. 4 ELSE {0}

(* Whether |actred| and prered may both be within ftol: a norm that is not *)
(* a number has actred -1, and 0.5 ratio <= 1 keeps class 4 out.           *)
MaySettle(f1, ratio) == IF f1 = NaN \/ ratio = 4 THEN {FALSE} ELSE BOOLEAN

(* The step bound after a trial: shrunk to between a tenth and a half of   *)
(* the shorter of the radius and ten steps, doubled from the step, or kept.*)
Radii(r0, f1, ratio) ==
  IF ratio <= 1 THEN
    LET r == Least(r0, 10 * pnorm)
    IN IF f1 # NaN /\ f1 <= fnorm THEN {r \div 2} ELSE (r \div 10) .. (r \div 2)
  ELSE IF par = 0 \/ ratio >= 3 THEN {2 * pnorm} ELSE {r0}

(* par /= temp with temp from 0.1 to 0.5, or par *= 0.5.                   *)
Damping(ratio) ==
  IF ratio <= 1 THEN {Least(2 * par, MaxPar), Least(10 * par, MaxPar)}
  ELSE IF par = 0 \/ ratio >= 3 THEN {par \div 2} ELSE {par}

(* The stopping tests in order; 0 is none.  The tests at eps (6, 7) follow *)
(* those at ftol and xtol and never decide.                                *)
StopCode(settled, radius, atX, evals) ==
  LET hits == (IF settled THEN 1 ELSE 0) + (IF radius = 0 /\ atX # 0 THEN 2 ELSE 0)
  IN CASE hits > 0         -> hits
       [] evals >= MaxFev  -> 5
       [] gnorm <= 1       -> 8
       [] OTHER            -> 0

\* Mutant: a step is taken although the norm is no smaller.
AcceptedIfFinite(ratio, f1) == f1 # NaN

(* MINPACK's acceptance: any reduction above 1e-4 of the predicted one.    *)
Accepted(ratio, f1) == ratio >= 1

Trial ==
  /\ pc = "trial"
  /\ \E xnew \in Coordinates :
       LET f1       == Norm(problem, anchored, xnew)
           r0       == IF iters = 0 THEN Least(delta, pnorm) ELSE delta
       IN /\ Abs(xnew - x) = pnorm
          /\ \E ratio \in Ratios(f1) : \E settled \in MaySettle(f1, ratio) :
               /\ delta' \in Radii(r0, f1, ratio) /\ par' \in Damping(ratio)
               /\ nfev' = nfev + 1
               /\ IF Accepted(ratio, f1)
                  THEN x' = xnew /\ fnorm' = f1 /\ iters' = iters + 1
                  ELSE UNCHANGED <<x, fnorm, iters>>
               /\ info' = StopCode(settled, delta', x', nfev')
               /\ pc' = IF info' # 0 THEN "solved" ELSE IF Accepted(ratio, f1) THEN "pass" ELSE "region"
  /\ pnorm' = 0
  /\ UNCHANGED <<problem, anchored, jacobianAt, gnorm, search, res>>

----------------------------------------------------------------------------
\* Mutant: the re-solve is asked for its rank too.
DeficienciesOfEverySolve == {d \in 0 .. NKnots : d >= NKnots - problem.rows}

(* The deficiency of J at the point of the first solve, whose rank is at   *)
(* most the rows there are; the re-solve is not asked.                     *)
Deficiencies == IF anchored THEN {0} ELSE {d \in 0 .. NKnots : d >= NKnots - problem.rows}

\* Mutant: the first solve keeps its status over the re-solve.
AdoptIterations(r, d) ==
  [r EXCEPT !.info = IF anchored THEN @ ELSE info,
            !.iterations = @ + iters, !.deficiency = IF anchored THEN @ ELSE d]

(* What a solve adds to the result: the status is of the last one.         *)
Adopt(r, d) ==
  [r EXCEPT !.info = info, !.iterations = @ + iters, !.deficiency = IF anchored THEN @ ELSE d]

(* calibrate_with after a solve: a deficient problem is solved again from  *)
(* the seed with the anchor rows.                                          *)
Solved ==
  /\ pc = "solved"
  /\ jacobianAt' = x /\ gnorm' = 0
  /\ \E d \in Deficiencies :
       /\ res' = Adopt(res, d)
       /\ IF d > 0 THEN StartSolve(TRUE)
          ELSE pc' = "report" /\ UNCHANGED <<anchored, x, fnorm, nfev, iters, delta, par, info>>
  /\ UNCHANGED <<problem, search, pnorm>>

(* finish_status, on the residual of the instrument rows at x.             *)
Report ==
  /\ pc = "report"
  /\ res' = [res EXCEPT !.rms = problem.norm[x],
                        !.converged = res.info \in (1 .. 8) \ {5} /\ problem.norm[x] # NaN]
  /\ pc' = "done"
  /\ UNCHANGED <<problem, anchored, x, fnorm, jacobianAt, delta, par, gnorm, search, pnorm, nfev, iters, info>>

Next ==
  \/ RefuseSeed \/ FirstSolve \/ Pass
  \/ GaussNewtonFits \/ OpenSearch \/ SettleSearch \/ NextTrial
  \/ Trial \/ Solved \/ Report

(* One thread runs the driver to its end.                                  *)
Spec == Init /\ [][Next]_vars /\ WF_vars(Next)

----------------------------------------------------------------------------
Searches == [parl : 0 .. MaxPar, paru : 0 .. MaxPar, root : 0 .. MaxPar, par : 0 .. MaxPar,
             it : Nat, under : BOOLEAN]
Results == [info : -2 .. 8, iterations : Nat, deficiency : 0 .. NKnots, rms : Int, converged : BOOLEAN]

TypeOK ==
  /\ problem \in Problems
  /\ pc \in {"seed", "refused", "pass", "region", "search", "trial", "solved", "report", "done"}
  /\ anchored \in BOOLEAN /\ x \in Coordinates /\ jacobianAt \in Coordinates
  /\ fnorm \in Int /\ delta \in Nat /\ par \in 0 .. MaxPar /\ gnorm \in 0 .. 2 /\ pnorm \in Nat
  /\ search \in Searches
  /\ nfev \in Nat /\ iters \in Nat /\ info \in -2 .. 8
  /\ res \in Results

(* What calibrate hands back fits no worse than the seed it was given,     *)
(* though a deficient problem throws the first solve's point away, and a   *)
(* re-solve that gains nothing leaves the state where it was (lm.hpp:290). *)
NeverWorse ==
  pc = "done" =>
    /\ 0 <= problem.norm[x] /\ problem.norm[x] <= problem.norm[problem.seed]
    /\ anchored /\ problem.norm[x] = problem.norm[problem.seed] => x = problem.seed

(* The status is of the solve that made x: never the "improper input" the  *)
(* first solve of a problem short of rows ends with, nor its iterations    *)
(* alone; the residual and the Jacobian of the report are taken at x.      *)
StatusIsOfTheResult ==
  pc = "done" =>
    /\ res.info \in 1 .. 8 /\ res.converged = (res.info # 5)
    /\ anchored = (res.deficiency > 0)
    /\ res.iterations = 0 => x = problem.seed
    /\ jacobianAt = x /\ res.rms = problem.norm[x]

(* The damping search keeps the parameter it looks for inside its bracket, *)
(* and its trials, each damped (lm.hpp:165).                               *)
BracketHoldsRoot ==
  pc = "search" =>
    /\ search.parl <= search.root /\ search.root <= search.paru
    /\ search.parl <= search.par /\ search.par <= search.paru /\ 0 < search.par
    /\ search.it <= MaxTrials

(* No solve evaluates the residual past its limit, and every accepted step *)
(* cost an evaluation of its own.                                          *)
EvaluationBudget ==
  /\ nfev <= Greatest(MaxFev, 2)
  /\ pc # "seed" /\ pc # "refused" => iters < nfev

(* A calibration ends, at x = 0 too, where no radius is within xtol of x:  *)
(* by its stopping tests or its evaluations.                               *)
SolveEnds == <>(pc \in {"done", "refused"})
=============================================================================
