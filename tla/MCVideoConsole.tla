--------------------------- MODULE MCVideoConsole ---------------------------
(* The machines of VideoConsole: a good one, each way a part of it may     *)
(* differ, lists of two modes and of three that matter, no list and what    *)
(* may lie behind it, mode 0 refused and taken, maps of two entries.        *)
EXTENDS VideoConsole

Resolution(w, h, bpp, supported, answered, settable) ==
  [answered |-> answered, settable |-> settable,
   is |-> [width |-> w, height |-> h, bpp |-> bpp, supported |-> supported]]
Small == Resolution(5, 4, 32, TRUE, TRUE, TRUE)
Wide == Resolution(7, 5, 32, TRUE, TRUE, TRUE)
Flat == Resolution(5, 7, 32, TRUE, TRUE, FALSE)
Deep == Resolution(8, 6, 24, TRUE, TRUE, TRUE)
Absent == Resolution(8, 7, 32, FALSE, TRUE, TRUE)
High == Resolution(6, 9, 32, TRUE, TRUE, TRUE)
Silent == Resolution(7, 7, 32, TRUE, FALSE, FALSE)
Modes == {Small, Wide, Flat, Deep, Absent, High, Silent}

Answer(id, lo, hi, size, valid, sig) ==
  [id |-> id, lo |-> lo, hi |-> hi, size |-> size, valid |-> valid, sig |-> sig]
Answers == {Answer("low", 1, 0, 20, FALSE, TRUE), Answer("free", 1, 1, 24, TRUE, TRUE),
            Answer("far", 0, 1, 24, TRUE, TRUE), Answer("odd", 3, 1, 20, TRUE, TRUE),
            Answer("empty", 0, 0, 24, TRUE, TRUE), Answer("bad", 1, 0, 24, FALSE, TRUE),
            Answer("gap", 1, 0, 0, TRUE, TRUE), Answer("alien", 1, 0, 20, TRUE, FALSE)}

Good == [edd |-> TRUE, disc |-> TRUE,
         dpte |-> [io |-> 1, ctl |-> 2, slave |-> FALSE], cpu |-> "64bit",
         vbe |-> 3, modes |-> <<Small, Wide>>,
         beyond |-> <<Silent>>, zero |-> Resolution(4, 3, 4, TRUE, FALSE, TRUE),
         legacy |-> Resolution(6, 4, 24, TRUE, TRUE, TRUE),
         leftover |-> [width |-> 0, height |-> 0, bpp |-> 0, supported |-> FALSE],
         e820 |-> <<Answer("low", 1, 0, 20, FALSE, TRUE)>>, carry |-> FALSE,
         a20 |-> TRUE]

MCBios ==
  {Good, [Good EXCEPT !.edd = FALSE], [Good EXCEPT !.disc = FALSE],
   [Good EXCEPT !.dpte = NoTable], [Good EXCEPT !.dpte.slave = TRUE],
   [Good EXCEPT !.cpu = "old"], [Good EXCEPT !.cpu = "32bit"],
   [Good EXCEPT !.vbe = 1],
   [Good EXCEPT !.vbe = 1, !.legacy = Resolution(6, 4, 24, TRUE, FALSE, FALSE)],
   [Good EXCEPT !.leftover = Silent.is, !.modes = <<Silent, Small>>],
   [Good EXCEPT !.a20 = FALSE]}
  \cup {[Good EXCEPT !.modes = s] :
          s \in (BoundedSeq(Modes, 2) \ {<<>>})
                \cup {<<Small, Silent, Wide>>, <<Wide, Silent, Absent>>,
                      <<Small, Deep, Silent>>, <<Wide, Flat, Small>>,
                      <<High, Silent, Small>>, <<Deep, Silent, Absent>>}}
  \cup {[Good EXCEPT !.modes = s, !.zero = Resolution(4, 3, 4, TRUE, TRUE, set)] :
          s \in {<<Small>>, <<Deep>>, <<Silent, Absent>>}, set \in BOOLEAN}
  \cup {[Good EXCEPT !.modes = <<>>, !.beyond = s, !.zero = z] :
          s \in {<<Silent>>, <<Absent, Small>>, <<Silent, Wide, Flat>>},
          z \in {Good.zero, Resolution(4, 3, 4, TRUE, TRUE, TRUE)}}
  \cup {[Good EXCEPT !.e820 = s, !.carry = c] :
          s \in BoundedSeq(Answers, 2), c \in BOOLEAN}
=============================================================================
