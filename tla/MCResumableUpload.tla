------------------------- MODULE MCResumableUpload -------------------------
\* Bounded instance of ResumableUpload.
EXTENDS ResumableUpload
=============================================================================
