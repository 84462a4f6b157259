----------------------------- MODULE MCSqQueue -----------------------------
\* The ring queue with five slots: every position of front and rear, every
\* length, every wrap, two element values.
EXTENDS SqQueue

============================================================================
