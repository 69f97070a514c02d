---- MODULE MCLectura ----
EXTENDS Lectura
====
