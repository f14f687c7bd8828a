--------------------------- MODULE MCManagedMemory ---------------------------
(***************************************************************************)
(* Instances of ManagedMemory for TLC.                                     *)
(***************************************************************************)
EXTENDS ManagedMemory, TLC

Command(op, p) == [op |-> op, pages |-> p]

\* Two pages: fills, and copies to the host.
FillsAndCopies == {Command("fill", <<1, 2>>), Command("d2h", <<1>>),
                   Command("d2h", <<2>>)}

\* Five pages: a command of every kind that can be in need of a frame; the
\* fill and the compute command together fault on pages in sequence.
EveryKind == {Command("fill", <<1, 2>>), Command("compute", <<4, 5, 1>>),
              Command("d2d", <<5, 1>>)}

\* A copy from one page to another.
OneCopy == {Command("d2d", <<2, 1>>)}

\* A fill of the first two of three pages.
OneFill == {Command("fill", <<1, 2>>)}

\* Engines are interchangeable.  Used by the safety runs only.
EngineSymmetry == Permutations(Engines)
=============================================================================
