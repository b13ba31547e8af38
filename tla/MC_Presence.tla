------------------------------ MODULE MC_Presence ------------------------------
EXTENDS Presence

\* One socket's instance is fixed: the instances have no other names.
MCRoutings == LET c == CHOOSE c \in Conns : TRUE
                  i == CHOOSE i \in Instances : TRUE
              IN  {h \in [Conns -> Instances] : h[c] = i}
===============================================================================
