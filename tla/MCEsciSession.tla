---- MODULE MCEsciSession ----
\* Instance of EsciSession: an image of four pieces, five polls.
EXTENDS EsciSession
====
