SPECIFICATION Spec
CONSTANTS
  Members = {me, p}
  Me = me
  Texts = {a}
  NoText = NoText
  Labels = {l}
  Chats = {c, d}
  Users = {u}
  None = None
  MaxTime = 2
  MaxChanges = 4
CHECK_DEADLOCK FALSE
INVARIANTS TagsSettle LabelsSettle DeletedLabelFreesChats
PROPERTIES OnlyOlderTimersGo
SYMMETRY Symmetry
