------------------------------ MODULE PythonNone ------------------------------
\* The None of the source, and the row, file or answer that is not there: a value beside
\* all others.  Modules that are checked together share it.
CONSTANT None
===============================================================================
