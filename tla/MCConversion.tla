---------------------------- MODULE MCConversion ----------------------------
\* Answers of one text, for the run about a stream that is cut inside an event.
EXTENDS Conversion

MCBlock == {[type |-> "text", text |-> <<"a">>]}
=============================================================================
