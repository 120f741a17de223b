---- MODULE MCCapture ----
\* Instance of Capture: two numbers, three pages, two edits of the host.
EXTENDS Capture
====
