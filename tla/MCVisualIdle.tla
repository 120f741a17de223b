---- MODULE MCVisualIdle ----
\* Instance of VisualIdle with short timeouts.
EXTENDS VisualIdle
====
