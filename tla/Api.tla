-------------------------------- MODULE Api --------------------------------
(***************************************************************************)
(* The handlers of the API (api/internal) as their callers on the screens  *)
(* see them: the tables that the answer to a reading is computed from, and *)
(* the tables that a successful change writes, in the one transaction that *)
(* it runs in.  A handler is named after its package and its method.       *)
(*                                                                         *)
(* A table that only some calls of a handler write is one that it writes.  *)
(* Left out: which rows are read and written, validation and errors (a     *)
(* change that fails is rolled back), what is read only to decide whether  *)
(* a change is permitted, who is logged in, and downloads.                 *)
(***************************************************************************)

\* audit.InTx: what is changed is recorded in a change set with its logs.
audit_Begin == {"change_sets"}
audit_record == {"audit_logs"}
audit_InTx(tables) == tables \union audit_Begin \union audit_record

\* The amounts of a version: its plan, and the actuals or those it kept.
scenario_amounts == {"budget_facts", "scenarios", "scenario_actuals", "actual_facts"}
scenario_unallocated == {"scenarios", "scenario_actuals", "actual_facts"}

\* Formulas, and then the transfers to work in progress and back, of one
\* activity in the open versions, of one version, or of all of them.
calc_RecalculateWip == {"budget_facts"}
calc_Recalculate == {"budget_facts"} \union calc_RecalculateWip
calc_RecalculateActivity == calc_Recalculate
calc_RecalculateScenario == calc_Recalculate
calc_RecalculateWipAll == calc_RecalculateWip

\* The record of what was sent, and the notices.
notify_deliver == {"notification_runs", "notifications"}

-----------------------------------------------------------------------------
\* master: the trees (segments and organizations), units, subjects, partners,
\* confidence levels and users.

tree_list(table) == {table}
tree_create(table) == audit_InTx({table})
tree_update(table) == audit_InTx({table})
tree_delete(table) == audit_InTx({table})
tree_importCSV(table) == audit_InTx({table})

master_listUnits == {"units"}
master_createUnit == audit_InTx({"units"})
master_updateUnit == audit_InTx({"units"})
master_deleteUnit == audit_InTx({"units"})
master_importUnits == audit_InTx({"units"})

master_listSubjects == {"subjects"}
master_createSubject == audit_InTx({"subjects"})
\* Whether a subject is a cost or the transfer changes the work in progress.
master_updateSubject == audit_InTx({"subjects"} \union calc_RecalculateWipAll)
master_deleteSubject == audit_InTx({"subjects"})
master_importSubjects == audit_InTx({"subjects"})

\* Each with the number of the lines it is named in.
master_listPartners == {"partners", "activity_lines"}
master_partnerLines == {"activity_lines", "subjects", "activities"}
master_createPartner == audit_InTx({"partners"})
master_updatePartner == audit_InTx({"partners"})
master_deletePartner == audit_InTx({"partners"})
master_importPartners == audit_InTx({"partners"})

master_listConfidenceLevels == {"confidence_levels"}
master_createConfidenceLevel == audit_InTx({"confidence_levels"})
master_updateConfidenceLevel == audit_InTx({"confidence_levels"})
master_deleteConfidenceLevel == audit_InTx({"confidence_levels"})

\* Whether there is a password is part of the answer.  Who is deactivated, or
\* gets another password, is logged out everywhere.
master_listUsers == {"users"}
master_createUser == audit_InTx({"users"})
master_updateUser == audit_InTx({"users", "sessions"})
master_resetPassword == audit_InTx({"users", "sessions"})
master_importUsers == audit_InTx({"users", "sessions"})

-----------------------------------------------------------------------------
\* actual: accounts, rules, entries and their totals, the closing of years.

actual_listAccounts == {"gl_accounts"}
actual_createAccount == audit_InTx({"gl_accounts"})
actual_updateAccount == audit_InTx({"gl_accounts"})
actual_deleteAccount == audit_InTx({"gl_accounts"})
actual_importAccounts == audit_InTx({"gl_accounts"})

actual_listRules == {"allocation_rules", "gl_accounts", "activities"}
actual_createRule == audit_InTx({"allocation_rules"})
actual_updateRule == audit_InTx({"allocation_rules"})
actual_deleteRule == audit_InTx({"allocation_rules"})
actual_importRules == audit_InTx({"allocation_rules"})

\* The entries of an activity, with the check against their totals.
actual_activityEntries == {"actual_entries", "gl_accounts", "actual_facts"}
actual_actualMonths == {"actual_facts"}
actual_listUnallocated == {"actual_entries", "gl_accounts", "subjects"}

\* The totals, and the work in progress that depends on them.
actual_syncFacts == {"actual_facts"} \union calc_RecalculateWipAll
actual_importActuals == audit_InTx({"actual_entries"} \union actual_syncFacts)
actual_reallocate == audit_InTx({"actual_entries"} \union actual_syncFacts)
\* The choice may be remembered as a rule or as an external code.
actual_registerExternalCode == {"activity_external_codes"}
actual_assignUnallocated ==
  audit_InTx({"actual_entries", "allocation_rules"} \union actual_registerExternalCode
             \union actual_syncFacts)

\* The actuals that a locked version kept, beside those of today.
actual_loadDrift == {"scenarios", "scenario_actuals", "actual_facts", "subjects"}
actual_listDrift == actual_loadDrift
actual_refreshActuals == audit_InTx({"scenario_actuals"})

-----------------------------------------------------------------------------
\* scenario: the versions, their cycle, and what is written to them.

scenario_list == {"scenarios"}
scenario_get == {"scenarios"}
\* Whoever holds the alias in that year gives it up.
scenario_takeRole == {"scenarios"}
scenario_deactivateCurrent == {"scenarios"}
\* Locking keeps the actuals; LockActiveOfYear does it for a year.
scenario_lockScenario == {"scenarios", "scenario_actuals"}
\* With the plan and the texts of the version it is copied from.
scenario_insertScenario ==
  {"scenarios", "driver_values", "budget_facts", "activity_recognitions", "scenario_narratives"}
scenario_create == audit_InTx(scenario_takeRole \union scenario_insertScenario)
\* Another boundary month moves the months that are planned.
scenario_update ==
  audit_InTx({"scenarios"} \union scenario_takeRole \union calc_RecalculateScenario)
  \union notify_deliver
scenario_activate ==
  audit_InTx({"scenarios"} \union scenario_deactivateCurrent) \union notify_deliver
scenario_setLocked == audit_InTx(scenario_lockScenario)

\* The new version becomes the active one of its year; with a deadline, its
\* start is announced.  A dry run is rolled back, and nobody hears of it.
scenario_runCycle(prepared) ==
  audit_InTx(prepared \union scenario_deactivateCurrent \union {"scenarios"})
  \union notify_deliver
\* The forecast of the month takes over from the one before, which is locked.
scenario_startMonthly ==
  scenario_runCycle(scenario_lockScenario \union scenario_takeRole
                    \union scenario_insertScenario \union calc_RecalculateScenario)
\* The plan of the new year begins with what the forecast has for its months.
scenario_seedFromCurrent ==
  {"budget_facts", "driver_values", "activity_recognitions"} \union calc_RecalculateScenario
scenario_startFiscalYear ==
  scenario_runCycle(scenario_takeRole \union scenario_insertScenario
                    \union scenario_seedFromCurrent)

actual_listClosings == {"fiscal_year_closings", "users"}
actual_closeYear == audit_InTx({"fiscal_year_closings"} \union scenario_lockScenario)
actual_reopenYear == audit_InTx({"fiscal_year_closings"})

\* The amounts of one activity in one version.
scenario_loadAmounts ==
  {"activity_lines", "partners", "subjects", "budget_facts"} \union scenario_amounts
\* An edit takes the completion back.
scenario_markEdited == {"activity_scenario_notes"}
scenario_importPlanValues ==
  audit_InTx({"driver_values"} \union calc_Recalculate \union scenario_markEdited)

\* The list of the home page: numbers, explanations and what is still to do.
scenario_annualTotals == {"subjects"} \union scenario_amounts
\* What the version before planned for the months that have actuals now.
scenario_accuracyOf == {"subjects"} \union scenario_amounts \union scenario_annualTotals
scenario_activityStatuses ==
  {"scenarios", "activities", "units", "activity_scenario_notes", "activity_watches",
   "activity_scenario_comments"} \union scenario_annualTotals \union scenario_accuracyOf
\* The dates as they were come from the logs.
scenario_milestones == {"activity_milestones", "audit_logs", "scenarios"}

scenario_respondComments == {"activity_scenario_comments", "users", "scenarios"}
scenario_postComment == {"activity_scenario_comments", "notifications"}
scenario_putComment == {"activity_scenario_comments"}
scenario_deleteComment == {"activity_scenario_comments"}
scenario_getNarrative == {"scenario_narratives", "users"}
scenario_putNarrative == audit_InTx({"scenario_narratives"})

-----------------------------------------------------------------------------
\* activity: activities with their lines, drivers, milestones and codes.

activity_list == {"activities", "units", "activity_watches"}
\* The words of a search may be an external code.
activity_search == activity_list \union {"activity_external_codes"}
activity_get ==
  {"activities", "units", "activity_watches", "activity_milestones", "activity_drivers",
   "activity_external_codes", "activity_lines", "subjects"}
\* A copy takes over the lines and drivers.
activity_copyDefinitions == {"activity_drivers", "activity_lines"}
activity_create == audit_InTx({"activities"} \union activity_copyDefinitions)
\* With another recognition the formulas and the work in progress change.
activity_update == audit_InTx({"activities"} \union calc_RecalculateActivity)
activity_delete ==
  audit_InTx({"activities", "activity_external_codes", "activity_lines", "activity_drivers",
              "activity_milestones", "activity_scenario_notes", "activity_recognitions",
              "activity_watches", "activity_scenario_comments"})
activity_setPriority == audit_InTx({"activities"})
activity_setWatch == {"activity_watches"}
activity_upsertActivity == {"activities"}
activity_importCSV == audit_InTx(activity_upsertActivity \union {"activity_external_codes"})

activity_createMilestone == audit_InTx({"activity_milestones"})
activity_updateMilestone == audit_InTx({"activity_milestones"})
activity_deleteMilestone == audit_InTx({"activity_milestones"})
activity_createDriver == audit_InTx({"activity_drivers"})
activity_updateDriver == audit_InTx({"activity_drivers"})
activity_deleteDriver == audit_InTx({"activity_drivers"})
activity_createLine == audit_InTx({"activity_lines"} \union calc_RecalculateActivity)
activity_updateLine == audit_InTx({"activity_lines"} \union calc_RecalculateActivity)
\* The amounts of the line go with it, in every version.
activity_deleteLine == audit_InTx({"activity_lines", "budget_facts"})
activity_createExternalCode == audit_InTx({"activity_external_codes"})
activity_deleteExternalCode == audit_InTx({"activity_external_codes"})

-----------------------------------------------------------------------------
\* orgchange: plans and immediate changes of the organization.

orgchange_listPlans == {"org_change_plans", "org_change_items", "users"}
\* What could not be applied today is applied and rolled back to find out.
orgchange_saveItems == {"org_change_items"}
orgchange_createPlan == audit_InTx({"org_change_plans"} \union orgchange_saveItems)
orgchange_updatePlan == audit_InTx({"org_change_plans"} \union orgchange_saveItems)
\* The items go with the plan.
orgchange_deletePlan == audit_InTx({"org_change_plans", "org_change_items"})
orgchange_cancelPlan == audit_InTx({"org_change_plans"})
orgchange_applyItems == {"activities", "units"}
\* What failed is marked, and FP&A is told.
orgchange_markFailed == {"org_change_plans", "notifications"}
orgchange_Apply ==
  audit_InTx({"org_change_plans"} \union orgchange_applyItems) \union orgchange_markFailed
orgchange_applyNow == orgchange_Apply
orgchange_mergeUnit == audit_InTx({"activities", "units"})
orgchange_setArchived == audit_InTx({"units"})
\* What the user owned goes to others.
orgchange_deactivate == audit_InTx({"activities", "units", "users", "sessions"})

-----------------------------------------------------------------------------
\* notify, history and report.

notify_getSettings == {"notification_settings"}
notify_putSettings == audit_InTx({"notification_settings"})
notify_testSlack == {}
notify_listRuns == {"notification_runs", "scenarios"}
notify_listReminders == {"notifications"}
notify_sendReminder == {"notifications"}

history_fillSummaries == {"audit_logs", "activities", "activity_drivers"}
history_list ==
  {"change_sets", "audit_logs", "users", "scenarios"} \union history_fillSummaries

\* Weighted, or without what is unlikely, by the levels of lines and activities.
report_measureJoins == {"activities", "activity_lines", "confidence_levels"}
report_loadAmounts == {"activities"} \union report_measureJoins \union scenario_amounts
report_loadActuals == {"activities", "actual_facts"}
report_loadUnallocated == {"actual_facts"} \union scenario_unallocated
\* Subjects that may not be seen are left out, and that is said.
report_comparison ==
  {"scenarios", "subjects"}
  \union report_loadAmounts \union report_loadActuals \union report_loadUnallocated

report_loadRiskActivities == {"activities"}
report_accumulate == {"subjects"} \union report_measureJoins \union scenario_amounts
report_fillLines == {"activity_lines", "activities"} \union scenario_amounts
report_fillAccuracy == scenario_amounts
\* Dates that the logs say were later ones since the version before was made.
report_fillPostponed == {"activity_milestones", "audit_logs"}
\* The versions before, as long as there are some.
report_consecutiveChain ==
  {"scenarios"} \union report_loadRiskActivities \union report_accumulate
report_fillRiskMilestones == {"activity_milestones"}
report_fillConditions == {"activity_scenario_notes", "activity_scenario_comments"}
report_risk ==
  {"scenarios", "subjects", "confidence_levels"} \union report_loadRiskActivities
  \union report_accumulate \union report_fillLines \union report_fillAccuracy
  \union report_fillPostponed \union report_consecutiveChain
  \union report_fillRiskMilestones \union report_fillConditions
=============================================================================
