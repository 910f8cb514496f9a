------------------------------- MODULE A4Page -------------------------------
(***************************************************************************)
(* cv/web/cv.js: the CV on one A4 page, filled in the browser.  The page   *)
(* has the items that pageData of tailor.js sends; fill only chooses how   *)
(* many of them are shown and the spacing of the lines, one layout at a    *)
(* time.  The spacing is in steps of 0.05, from 20 (1.0) to 30 (1.5).      *)
(***************************************************************************)
EXTENDS CvModel

CONSTANTS LinesOf,    \* how many lines each bullet is
          OtherLines, \* how many lines the rest of the page is
          Box,        \* how many lines of spacing 1.0 the page holds, 20 times
          Tailored    \* the analyses

SpacingMin == 20
SpacingStart == 23
SpacingMax == 30
Target == 95

ASSUME SheetAssumption == \A a \in Tailored : DOMAIN a.picks \subseteq Nat

VARIABLES asked,    \* what the page is tailored to, and so its items
          step,     \* what fill does next
          visible,  \* the items that are shown
          spacing,  \* of the lines
          shrunk    \* the spacing was reduced for the musts

sheetVars == <<asked, step, visible, spacing, shrunk>>

ItemsOf(e) == Items(asked, e)

AllItems == UNION {ItemsOf(e) : e \in DOMAIN Experiences}

\* An item is a must when the docx shows it with no bullet chosen.
MustItems == Indispensable(asked) \cap AllItems

\* An experience with none shown: a short mission has no line at all.
Heads(shown) == Cardinality({e \in DOMAIN Experiences : Kind(e) # "short" \/ ItemsOf(e) \cap shown # {}})

Height(shown, space) ==
  space * (OtherLines + Heads(shown) + FoldSet(LAMBDA b, sum : LinesOf[b] + sum, 0, shown))

Fits(shown, space) == Height(shown, space) <= Box

\* ratio() < TARGET, to the percent.
Loose(shown, space) == (200 * Height(shown, space) + Box) \div (2 * Box) < Target

SheetInit ==
  /\ asked \in Tailored
  /\ step = "musts" /\ visible = {} /\ spacing = SpacingStart /\ shrunk = FALSE

Stays(from, to) == step = from /\ step' = to /\ UNCHANGED asked

ShowMusts ==
  /\ Stays("musts", "shrink")
  /\ visible' = MustItems /\ UNCHANGED <<spacing, shrunk>>

Shrink ==
  /\ ~ Fits(visible, spacing) /\ spacing > SpacingMin
  /\ Stays("shrink", "shrink")
  /\ spacing' = spacing - 1 /\ shrunk' = TRUE /\ UNCHANGED visible

\* It says that it overflows, and shows nothing more.
Overflow ==
  /\ ~ Fits(visible, spacing) /\ spacing = SpacingMin
  /\ Stays("shrink", "overflow")
  /\ shrunk' = TRUE /\ UNCHANGED <<visible, spacing>>

MustsFit ==
  /\ Fits(visible, spacing)
  /\ Stays("shrink", "fill") /\ UNCHANGED <<visible, spacing, shrunk>>

ShownOf(e) == Cardinality(ItemsOf(e) \cap visible)

\* Mutant: an experience may grow before the reference has.
AnyPending == (AllItems \cap Ranked(asked)) \ visible

\* An item waits until the reference shows more than its experience.
Pending == {b \in (AllItems \cap Ranked(asked)) \ visible :
              LET e == ExperienceOf(b) IN e = Reference \/ ShownOf(e) < ShownOf(Reference)}

NextItem == CHOOSE b \in Pending : \A c \in Pending \ {b} : Earlier(asked, b, c)

ShowNext ==
  /\ Pending # {} /\ Fits(visible \cup {NextItem}, spacing)
  /\ Stays("fill", "fill")
  /\ visible' = visible \cup {NextItem} /\ UNCHANGED <<spacing, shrunk>>

\* The first that does not fit is the last that is tried.
PageIsFull ==
  /\ Pending = {} \/ ~ Fits(visible \cup {NextItem}, spacing)
  /\ Stays("fill", "widen") /\ UNCHANGED <<visible, spacing, shrunk>>

CanWiden ==
  ~ shrunk /\ Loose(visible, spacing) /\ spacing < SpacingMax /\ Fits(visible, spacing + 1)

Widen ==
  /\ CanWiden
  /\ Stays("widen", "widen") /\ spacing' = spacing + 1 /\ UNCHANGED <<visible, shrunk>>

PageIsDone ==
  /\ ~ CanWiden
  /\ Stays("widen", "full") /\ UNCHANGED <<visible, spacing, shrunk>>

SheetNext == \/ ShowMusts \/ Shrink \/ Overflow \/ MustsFit
             \/ ShowNext \/ PageIsFull \/ Widen \/ PageIsDone

SheetSpec == SheetInit /\ [][SheetNext]_sheetVars

----------------------------------------------------------------------------
(* What must hold.                                                         *)

\* The page that is shown holds: every must is on it, no experience shows more
\* than the reference (rule 4), what is shown is what the docx could show, and
\* it overflows only where the musts do with the narrowest lines.
SheetIsRight ==
  step \in {"full", "overflow"} =>
    /\ MustItems \subseteq visible
    /\ \A e \in DOMAIN Experiences : ShownOf(e) <= ShownOf(Reference)
    /\ visible \subseteq OnTheCv(asked, Ranked(asked))
    /\ step = "full" => Fits(visible, spacing)
    /\ step = "overflow" => visible = MustItems /\ ~ Fits(visible, SpacingMin)
=============================================================================
