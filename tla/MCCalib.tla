------------------------------ MODULE MCCalib ------------------------------
(***************************************************************************)
(* A 7 bit converter: calibrations within and beyond the accepted margins, *)
(* in one number of one stanza, and offsets at each edge of the scale.     *)
(***************************************************************************)
EXTENDS FaCalib

MCStanza(off, g, temp) == [offset |-> [ch \in Chan |-> off + ch],
                           gain |-> [ch \in Chan |-> g - ch],
                           temperature |-> temp]

(* Corrections that differ from range to range and from channel to channel.*)
Plausible ==
  [adc |-> [r \in Stanzas |-> MCStanza(3 * r - 7, 60 + 4 * r, 30 + r)],
   dac |-> [r \in Stanzas |-> MCStanza(7 - 6 * r, 71 - 5 * r, 20 + 10 * r)]]
BadGain == [Plausible EXCEPT !.dac[2].gain[0] = HALF + DeltaGain + 1]
BadInput == [Plausible EXCEPT !.adc[2].gain[0] = HALF - DeltaGain - 1]
BadTemp == [Plausible EXCEPT !.adc[1].temperature = 2 * HALF - 1]

MCFiles == {Plausible, BadGain, BadInput, BadTemp}
Edges   == {-101, -100, -37, 0, 1, 63, 100, 250}
Few     == {-101, 63}
=============================================================================
