------------------------------ MODULE MCExport ------------------------------
\* Bounded instance of Export: an empty result, one batch, and a result whose
\* batches fill the channel; the cuts fall inside and at the end of a batch.
EXTENDS Export

TheQueries == { << << >> >>, << <<"a", "b">> >>, << <<"a", "b">>, <<"c">>, <<"d">> >> }
TheShared == { << << >> >> }
=============================================================================
