----------------------------- MODULE SlugUtils -----------------------------
(***************************************************************************)
(* How a slug is computed from a text (SlugUtils.ts).                      *)
(*                                                                         *)
(* A text is a sequence of classes of characters: letters, upper-case      *)
(* letters, combining marks, white space, dashes and all others.           *)
(***************************************************************************)
EXTENDS Subsequences

Letter == "a"
Upper == "A"
Mark == "m"
Space == " "
Dash == "-"
Other == "!"

Characters == {Letter, Upper, Mark, Space, Dash, Other}

\* Runs of c become one: a c that follows another is left out.
Squeeze(s, c) == Picked(s, {i \in DOMAIN s : ~(i > 1 /\ s[i] = c /\ s[i - 1] = c)})

Without(s, cs) == Picked(s, {i \in DOMAIN s : s[i] \notin cs})
Mapped(s, c, d) == [i \in DOMAIN s |-> IF s[i] = c THEN d ELSE s[i]]

\* String.trim: s begins and ends with something else than c.
Trim(s, c) ==
    LET solid == {i \in DOMAIN s : s[i] # c}
    IN IF solid = {} THEN <<>> ELSE SubSeq(s, Min(solid), Max(solid))

\* Mutant: dashes are joined before what is no part of a word is taken out.
Slugify_JoinsFirst(t) ==
    LET lower == Mapped(Without(t, {Mark}), Upper, Letter)
        dashed == Squeeze(Mapped(Trim(lower, Space), Space, Dash), Dash)
    IN Without(dashed, {Other})

Slugify(t) ==
    LET lower == Mapped(Without(t, {Mark}), Upper, Letter)
        dashed == Mapped(Squeeze(Trim(lower, Space), Space), Space, Dash)
    IN Squeeze(Without(dashed, {Other}), Dash)
=============================================================================
