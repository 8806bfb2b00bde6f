---- MODULE MCMachine ----
\* Values of the machine's constants that a .cfg can name.
EXTENDS Machine

MCCharacters == {"a", "m", "3", "[", "NL", "CR", "BS", "TAB", "DEL"}
====
