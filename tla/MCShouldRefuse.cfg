SPECIFICATION Spec
CHECK_DEADLOCK FALSE
CONSTANT Texts <- RefusalTexts
INVARIANT AcceptedIsLegal
