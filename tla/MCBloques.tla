---- MODULE MCBloques ----
EXTENDS Bloques

CONSTANTS t1, t2
====
