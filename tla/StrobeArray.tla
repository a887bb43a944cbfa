----------------------------- MODULE StrobeArray -----------------------------
(***************************************************************************)
(* Arrays of cells that flash one after the other                          *)
(* (fixture/control/strobe_array.rs), and the chases of the two profiles   *)
(* that have one.  A chase is a sequence of patterns, each a set of cells, *)
(* and the offsets of the parts that run through it in lockstep.           *)
(***************************************************************************)
EXTENDS Integers, SequencesExt

Chase(patterns, offsets) ==
    [patterns |-> patterns, offsets |-> offsets, reversible |-> TRUE]

\* The cells a to b, upwards or downwards.
Up(a, b) == [i \in 1 .. b - a + 1 |-> a + i - 1]
Down(b, a) == Reverse(Up(a, b))

singles(cells) == [i \in DOMAIN cells |-> {cells[i]}]
\* PatternArray::all.
Every(n) == Chase(<<0 .. n - 1>>, <<0>>)
two_flash_spread(n) ==
    [i \in 1 .. n \div 2 |-> {n \div 2 - i, n \div 2 + i - 1}]
\* The spread, and back by the given number of patterns.
SpreadBounce(n, back) ==
    two_flash_spread(n) \o SubSeq(Reverse(two_flash_spread(n)), 2, 1 + back)

\* One part for each of the multiplier's segments, the same number of steps
\* apart from each other.
with_mult_auto(patterns, mult, n) ==
    Chase(patterns, [k \in 1 .. mult |-> (k - 1) * (n \div mult)])
\* Every cell once before it is shuffled again; which one is when makes no
\* difference here.  There is no way back through a random pattern.
RandomPattern(mult, n) ==
    [patterns |-> [i \in 1 .. n \div mult |-> ((i - 1) * mult) .. (i * mult - 1)],
     offsets |-> <<0>>, reversible |-> FALSE]

(***************************************************************************)
(* The chases of each array, by multiplier                                 *)
(***************************************************************************)
BounceOutIn == Up(0, 4) \o Down(3, 0) \o Up(5, 9) \o Down(8, 5)
BounceInOut == Down(4, 0) \o Up(1, 4) \o Down(9, 5) \o Up(6, 9)

\* The number of chases to choose from (Flasher::len).
len(array) == Len(array.chases[1])

Array(n, mults, chases) == [cells |-> n, mults |-> mults, chases |-> chases]

FreqStrobeArray ==
    LET chases(m) == <<
            with_mult_auto(singles(Up(0, 15)), m, 16),
            with_mult_auto(singles(Up(0, 15) \o Down(14, 1)), m, 16),
            with_mult_auto(two_flash_spread(16), m, 16),
            with_mult_auto(SpreadBounce(16, 6), m, 16),
            RandomPattern(m, 16)>>
    IN  Array(16, 3, <<chases(1), chases(2), chases(4)>>)
\* Two multipliers to select from, with chases for the first.
FlashBangArray ==
    Array(5, 2, << <<
        with_mult_auto(singles(Up(0, 4)), 1, 5),
        with_mult_auto(singles(Up(0, 4) \o Down(3, 1)), 1, 5),
        RandomPattern(1, 5),
        Every(5)>> >>)
FlashBangPairedArray ==
    Array(10, 2, <<
        <<with_mult_auto(singles(Up(0, 9)), 1, 10),
          Chase(singles(BounceOutIn), <<0>>),
          Chase(singles(BounceInOut), <<0>>),
          Chase(singles(Up(0, 9) \o Down(8, 1)), <<0>>),
          RandomPattern(1, 10),
          Chase(<<0 .. 4, 5 .. 9>>, <<0>>)>>,
        <<with_mult_auto(singles(Up(0, 9)), 2, 10),
          Chase(singles(BounceOutIn), <<0, 9>>),
          Chase(singles(BounceInOut), <<0, 9>>),
          Chase(SpreadBounce(10, 3), <<0>>),
          RandomPattern(2, 10),
          Every(10)>> >>)

(***************************************************************************)
(* The Flasher: next holds the next pattern of each part of the selected   *)
(* chase; the parts of the others are reset when they are selected.        *)
(***************************************************************************)
new_flasher == [kind |-> "flasher", chase |-> 1, mult |-> 1,
                selected |-> [chase |-> 1, mult |-> 1], next |-> <<1>>, lit |-> {}]

Exists(array, selected) == selected.mult \in DOMAIN array.chases
chase_mut(array, selected) == array.chases[selected.mult][selected.chase]

\* Mutant: all parts start together.
reset_chase_Together(chase) == [k \in DOMAIN chase.offsets |-> 1]
reset_chase(chase) ==
    [k \in DOMAIN chase.offsets |-> 1 + (chase.offsets[k] % Len(chase.patterns))]

step(chase, p, reverse) ==
    IF reverse /\ chase.reversible
      THEN IF p = 1 THEN Len(chase.patterns) ELSE p - 1
      ELSE 1 + (p % Len(chase.patterns))

lit_by(chase, next) == UNION {chase.patterns[next[k]] : k \in DOMAIN next}

\* Flashes last for one update.  A chase that does not exist is an error that
\* is logged, and nothing flashes.
update_flasher(array, f, trigger, reverse) ==
    LET selected == [chase |-> f.chase, mult |-> f.mult]
        chase == chase_mut(array, selected)
        start == IF selected # f.selected THEN reset_chase(chase) ELSE f.next
    IN  IF ~Exists(array, selected)
          THEN [f EXCEPT !.selected = selected, !.next = <<>>, !.lit = {}]
        ELSE IF ~trigger
          THEN [f EXCEPT !.selected = selected, !.next = start, !.lit = {}]
        ELSE [f EXCEPT !.selected = selected, !.lit = lit_by(chase, start),
                !.next = [k \in DOMAIN start |-> step(chase, start[k], reverse)]]
=============================================================================
