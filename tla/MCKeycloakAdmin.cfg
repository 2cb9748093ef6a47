SPECIFICATION Spec
CONSTANTS
  Calls = {any, link}
  OperationsOf <- MCOperationsOf
  Permissions <- MCPermissions
  Statuses = {401, 404, 408, 503}
  MaxRetries = 1
  Null = Null
  any = any
  link = link
INVARIANTS
  ToldAsAnswered
  WritesNeedWriteScope
  AppliedOnce
  LinkedOnceUnlessRaced
\* Calls are finite, and a start may be refused.
CHECK_DEADLOCK FALSE
