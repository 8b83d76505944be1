------------------------- MODULE MCResourceLimiter ---------------------------
\* Model-checking instance of ResourceLimiter: five callers race for three slots
\* of a counter that would wrap at 16.
EXTENDS ResourceLimiter

MCLimit == 3
MCU32 == 16
=============================================================================
